---- MODULE Spec2Model ----
(***************************************************************************)
(* Frame-relay pipeline of pylibssp's example programs:                    *)
(*   src/example/dump_h26x.py  Dumph26x        (raw-stream file writer)    *)
(*   src/example/preview.py    DecodeH26x      (decode worker)             *)
(*   src/example/preview.py    PreviewH26xWnd  (display worker)            *)
(* Every thread of the Python code is a process with its own program       *)
(* counter; one action is one step between two accesses of shared state.   *)
(***************************************************************************)
EXTENDS Integers, Sequences, FiniteSets, TLC

(***************************************************************************)
(* Bounds of the model.                                                    *)
(***************************************************************************)
\* start() calls of one Dumph26x that launch a worker thread
MaxStarts == 2
\* write_frame() calls made by the network-callback thread
MaxSubmit == 2
\* I/O faults (open, write, flush) the environment may inject
MaxFaults == 1
\* start() calls of one PreviewH26xWnd that launch worker threads
MaxPreviewStarts == 2
\* push_frame() calls made by the network-callback thread
MaxPush == 2
\* queue_size argument of DecodeH26x.__init__ (30 by default)
queue_size == 2
\* start() calls, write_frame() calls and push_frame() calls when either
\* component is exercised (SpecEither)
EitherStarts == 1
EitherSubmit == 1
EitherPush == 3
\* units on which the codec's parse or decode raises
MaxDecodeFaults == 1
\* start() calls and push_frame() calls of the runs under fair scheduling
\* (SpecCancel)
CancelStarts == 2
CancelPush == 1
\* push_frame() calls of the overload runs (SpecOverload), made on a
\* decoder of capacity queue_size started once
OverloadPush == 5
FanOutFrames == 2
SessionFrames == 1
SessionFaults == 1
\* run_client threads the front end may start (Connect presses that pass
\* the control-plane calls), and SspClient failures of the front-end runs
MaxSessions == 2
MaxClientFaults == 1

Workers == 1..MaxStarts
PWorkers == 1..MaxPreviewStarts
Sessions == 1..MaxSessions
None == 0

\* Frame payloads (bytes objects) the callback thread may submit.
Payloads == {<<1>>, <<2, 3>>}

(***************************************************************************)
(* State of one Dumph26x instance, of its threads and of its output file.  *)
(***************************************************************************)
VARIABLES
    dump_is_running,     \* self.is_running
    dump_stop_event,     \* self.stop_event (threading.Event, set or not)
    dump_frame_queue,    \* self.frame_queue (queue.Queue(), no maxsize)
    dump_file_handle,    \* self.file_handle: None or the handle of a worker
    dump_thread,         \* self.dump_thread: None or a worker
    wpc,                 \* position of each _dump_worker thread
    wlocal,              \* locals of each worker: frame_data, frames_written,
                         \* remaining_frames, and the total it printed
    handles,             \* file objects: state, position, unflushed buffer
    disk,                \* bytes of the file at self.file_path
    cpc,                 \* position of the thread that calls start()/stop()
    ppc,                 \* position of the thread that calls write_frame()
    pframe,              \* frame_data argument of the write_frame in progress
    budget,              \* starts, submissions and faults still allowed
    hist                 \* history: what was submitted, written, observed

(***************************************************************************)
(* State of one PreviewH26xWnd with its DecodeH26x, and of their threads.  *)
(***************************************************************************)
VARIABLES
    dec_running,         \* DecodeH26x.running
    dec_stop_event,      \* DecodeH26x.stop_event
    dec_frame_queue,     \* DecodeH26x.frame_queue (maxsize=queue_size)
    decode_thread,       \* DecodeH26x.decode_thread: None or a worker
    dpc,                 \* position of each _decode_worker thread
    dunit,               \* frame_info each decode worker holds
    display_running,     \* PreviewH26xWnd.display_running
    display_thread,      \* PreviewH26xWnd.display_thread: None or a worker
    display_queue,       \* PreviewH26xWnd.display_queue (maxsize=3)
    current_image,       \* PreviewH26xWnd._current_image (None when unset)
    video_label,         \* what video_label shows: the text or a pixmap
    vpc,                 \* position of each _display_worker thread
    vframe,              \* frame each display worker holds
    qt_events,           \* frame_decoded emissions queued for the GUI thread
    gpc,                 \* position of the GUI thread in _on_frame_decoded
    gframe,              \* frame argument of the slot call in progress
    kpc,                 \* position of the thread calling start()/stop()
    npc,                 \* position of the thread calling push_frame()
    nunit,               \* frame_info of the push_frame in progress
    pbudget,             \* starts and pushes still allowed
    phist                \* history of the preview

(***************************************************************************)
(* Construction of the DecodeH26x: DecodeH26x.__init__ -> _init_codec.     *)
(***************************************************************************)
VARIABLES
    codec,               \* DecodeH26x.codec: "none", "h264" or "hevc"
    ipc,                 \* position of the constructing thread
    codec_tried          \* formats CodecContext.create was called with

(***************************************************************************)
(* State of example.py: the globals the session uses, the run_client       *)
(* thread, the SspClient and its callback thread.                          *)
(***************************************************************************)
VARIABLES
    h264_dump,           \* global h264_dump: None or the Dumph26x
    preview_widget,      \* global preview_widget: None or the PreviewH26xWnd
    stop_event,          \* global stop_event (threading.Event, set or not)
    client,              \* SspClient of run_client: "none", "created",
                         \* "started" or "stopped"
    rpc,                 \* position of the run_client thread
    opc,                 \* position of the callback thread in on_h264_data
    obudget,             \* frames and client faults still allowed
    ohist                \* history: frames delivered

cvars == <<codec, ipc, codec_tried>>

ovars == <<h264_dump, preview_widget, stop_event, client, rpc, opc, obudget,
           ohist>>

(***************************************************************************)
(* State of the front ends of example.py (MainWindow and run_main_cli):    *)
(* the main thread, the run_client threads it starts, one per Connect, and *)
(* the objects those threads start and stop, at the granularity of whole   *)
(* calls.                                                                  *)
(***************************************************************************)
VARIABLES
    stream_index,        \* global stream_index
    client_thread,       \* MainWindow.client_thread / client_thread of
                         \* run_main_cli: None or a run_client thread
    connect_btn,         \* text of connect_btn; "none" without a window
    mpc,                 \* position of the main thread
    session,             \* per run_client thread: its position, the state
                         \* of its SspClient and the stream style it chose
    writer_running,      \* is_running of the Dumph26x each Connect made
    widget_running,      \* display_running of the preview widget
    fhist                \* history: what the front end was given and did

fvars == <<stream_index, client_thread, connect_btn, mpc, session,
           writer_running, widget_running, fhist>>

pvars == <<dec_running, dec_stop_event, dec_frame_queue, decode_thread, dpc,
           dunit, display_running, display_thread, display_queue,
           current_image, video_label, vpc, vframe, qt_events, gpc, gframe,
           kpc, npc, nunit, pbudget, phist>>

wvars == <<dump_is_running, dump_stop_event, dump_frame_queue, dump_file_handle,
           dump_thread, wpc, wlocal, handles, disk, cpc, ppc, pframe, budget,
           hist>>

vars == <<wvars, pvars, cvars, ovars, fvars>>

(***************************************************************************)
(* Helpers.                                                                *)
(***************************************************************************)
RECURSIVE Concat(_)
Concat(frames) ==
    IF frames = <<>> THEN <<>> ELSE Head(frames) \o Concat(Tail(frames))

IsSuffix(s, t) ==
    /\ Len(s) <= Len(t)
    /\ SubSeq(t, Len(t) - Len(s) + 1, Len(t)) = s

Max(a, b) == IF a >= b THEN a ELSE b

\* A raw write of `data` at byte offset `pos` of a file holding `bytes`; a
\* write past the end leaves a hole of zero bytes.
WriteAt(bytes, pos, data) ==
    [i \in 1..Max(Len(bytes), pos + Len(data)) |->
        IF i > pos /\ i <= pos + Len(data) THEN data[i - pos]
        ELSE IF i <= Len(bytes) THEN bytes[i]
        ELSE 0]

\* Thread.is_alive() of a thread object, false for None
Alive(w) == w # None /\ wpc[w] \notin {"unborn", "done"}

\* A put that takes a queue for full one item too late.
QueueFullOffByOne(q, maxsize) == maxsize > 0 /\ Len(q) > maxsize

\* A put that takes a queue for full one item too early.
QueueFullEarly(q, maxsize) == maxsize > 0 /\ Len(q) >= maxsize - 1

\* Queue.put on a queue of `maxsize`: full when maxsize > 0 and the queue
\* holds maxsize items (maxsize <= 0 means no upper bound).
QueueFull(q, maxsize) == maxsize > 0 /\ Len(q) >= maxsize

\* queue.Queue() of Dumph26x.__init__: maxsize 0, which Python reads as
\* "no upper bound".
DumpQueueMaxsize == 0

NoLocal == [frame_data |-> <<>>, frames_written |-> 0, remaining_frames |-> 0,
            total |-> -1]

NoHandle == [st |-> "none", pos |-> 0, buf |-> <<>>]

Usable(h) == h # None /\ handles[h].st = "open"

\* file.write(data): the bytes go to the file object's buffer.
FileWrite(h, data) == [handles EXCEPT ![h].buf = @ \o data]

\* file.flush(): the buffer goes to the file at the object's position.
DiskAfterFlush(h) == WriteAt(disk, handles[h].pos, handles[h].buf)
FileFlush(h) ==
    [handles EXCEPT ![h].pos = @ + Len(handles[h].buf), ![h].buf = <<>>]

\* file.close(): flushes what is buffered and releases the descriptor;
\* closing a closed file object does nothing.
DiskAfterClose(h) ==
    IF handles[h].st = "open" /\ handles[h].buf # <<>>
    THEN DiskAfterFlush(h) ELSE disk
FileClose(h) ==
    IF handles[h].st = "open"
    THEN [FileFlush(h) EXCEPT ![h].st = "closed"] ELSE handles

(***************************************************************************)
(* example.py: the globals before a session. The Dumph26x is created by    *)
(* the caller of run_client when recording is asked for, the               *)
(* PreviewH26xWnd by the main window; in command-line mode there is none.  *)
(***************************************************************************)
TheDump == 1
TheWidget == 1

NoOHist == [delivered |-> 0]

\* A run_client thread that was not created yet.
NoThread == [pc |-> "unborn", client |-> "none", style |-> "none"]

NoFHist == [connects |-> 0, faults |-> 0, choice |-> "none",
            status |-> "none", code |-> "none",
            query_index |-> -1, sent_index |-> -1,
            query_ok |-> FALSE, sent_ok |-> FALSE,
            created |-> {}]

\* The globals of example.py as the module body leaves them, with a front
\* end in the given position.
FrontInit(position, button) ==
    /\ stream_index = 1
    /\ client_thread = None
    /\ connect_btn = button
    /\ mpc = position
    /\ session = [t \in Sessions |-> NoThread]
    /\ writer_running = [t \in Sessions |-> FALSE]
    /\ widget_running = FALSE
    /\ fhist = NoFHist

\* No front end: neither the window nor the command line acts.
NoFrontEnd == FrontInit("none", "none")

OrchInit(dump, widget, clientstate, position, frames, faults) ==
    /\ h264_dump = dump
    /\ preview_widget = widget
    /\ stop_event = FALSE
    /\ client = clientstate
    /\ rpc = position
    /\ opc = "idle"
    /\ obudget = [frames |-> frames, faults |-> faults]
    /\ ohist = NoOHist
    /\ NoFrontEnd

\* No session: run_client is not running and no callback is delivered.
NoSession == OrchInit(None, None, "none", "unborn", 0, 0)

(***************************************************************************)
(* Initial state: Dumph26x.__init__, no thread started, no file on disk.   *)
(***************************************************************************)
NoHist == [sub |-> <<>>, racy |-> FALSE, fault |-> FALSE, stopped |-> FALSE,
           at_stop |-> <<>>, late |-> FALSE, timed_out |-> FALSE,
           open_failed |-> {}, cycle |-> 0, dropped |-> 0,
           redundant |-> {}]

DumpInit(starts, submits, faults) ==
    /\ dump_is_running = FALSE
    /\ dump_stop_event = FALSE
    /\ dump_frame_queue = <<>>
    /\ dump_file_handle = None
    /\ dump_thread = None
    /\ wpc = [w \in Workers |-> "unborn"]
    /\ wlocal = [w \in Workers |-> NoLocal]
    /\ handles = [w \in Workers |-> NoHandle]
    /\ disk = <<>>
    /\ cpc = "idle"
    /\ ppc = "idle"
    /\ pframe = <<>>
    /\ budget = [starts |-> starts, submits |-> submits, faults |-> faults]
    /\ hist = NoHist

(***************************************************************************)
(* Dumph26x.start and Dumph26x.stop, called by one controlling thread.     *)
(***************************************************************************)
NextWorker == hist.cycle + 1

\* start() while is_running: prints and returns.
DumpStartNoop ==
    /\ cpc = "idle"
    /\ dump_is_running
    /\ hist' = [hist EXCEPT !.redundant = @ \cup {"start"}]
    /\ UNCHANGED <<dump_is_running, dump_stop_event, dump_frame_queue,
                   dump_file_handle, dump_thread, wpc, wlocal, handles, disk,
                   cpc, ppc, pframe, budget>>
    /\ UNCHANGED pvars
    /\ UNCHANGED cvars
    /\ UNCHANGED fvars
    /\ UNCHANGED ovars

\* start(): threading.Thread(...), thread.start()
DumpStartThread ==
    /\ cpc = "idle"
    /\ ~dump_is_running
    /\ budget.starts > 0
    /\ dump_thread' = NextWorker
    /\ wpc' = [wpc EXCEPT ![NextWorker] = "open"]
    /\ budget' = [budget EXCEPT !.starts = @ - 1]
    /\ cpc' = "start_set"
    /\ hist' = [hist EXCEPT !.sub = <<>>, !.racy = (ppc # "idle"),
                            !.stopped = FALSE, !.at_stop = <<>>,
                            !.late = FALSE, !.cycle = @ + 1]
    /\ UNCHANGED <<dump_is_running, dump_stop_event, dump_frame_queue,
                   dump_file_handle, wlocal, handles, disk, ppc, pframe>>
    /\ UNCHANGED pvars
    /\ UNCHANGED cvars
    /\ UNCHANGED fvars
    /\ UNCHANGED ovars

\* start(): self.is_running = True
DumpStartSetRunning ==
    /\ cpc = "start_set"
    /\ dump_is_running' = TRUE
    /\ cpc' = "idle"
    /\ UNCHANGED <<dump_stop_event, dump_frame_queue, dump_file_handle,
                   dump_thread, wpc, wlocal, handles, disk, ppc, pframe,
                   budget, hist>>
    /\ UNCHANGED pvars
    /\ UNCHANGED cvars
    /\ UNCHANGED fvars
    /\ UNCHANGED ovars

\* A stop() without the `if not self.is_running` test: the worker is
\* signalled whatever the state of the writer.
DumpStopUnguarded ==
    /\ cpc = "idle"
    /\ ~dump_is_running
    /\ hist' = [hist EXCEPT !.redundant = @ \cup {"stop"}]
    /\ dump_stop_event' = TRUE
    /\ UNCHANGED <<dump_is_running, dump_frame_queue, dump_file_handle,
                   dump_thread, wpc, wlocal, handles, disk, cpc, ppc, pframe,
                   budget>>
    /\ UNCHANGED pvars
    /\ UNCHANGED cvars
    /\ UNCHANGED fvars
    /\ UNCHANGED ovars

\* stop() while not is_running: prints and returns.
DumpStopNoop ==
    /\ cpc = "idle"
    /\ ~dump_is_running
    /\ hist' = [hist EXCEPT !.redundant = @ \cup {"stop"}]
    /\ UNCHANGED <<dump_is_running, dump_stop_event, dump_frame_queue,
                   dump_file_handle, dump_thread, wpc, wlocal, handles, disk,
                   cpc, ppc, pframe, budget>>
    /\ UNCHANGED pvars
    /\ UNCHANGED cvars
    /\ UNCHANGED fvars
    /\ UNCHANGED ovars

\* stop(): self.stop_event.set()
DumpStopSignal ==
    /\ cpc = "idle"
    /\ dump_is_running
    /\ dump_stop_event' = TRUE
    /\ cpc' = "stop_join"
    /\ hist' = [hist EXCEPT !.stopped = TRUE, !.at_stop = dump_frame_queue,
                            !.late = FALSE, !.racy = @ \/ (ppc # "idle")]
    /\ UNCHANGED <<dump_is_running, dump_frame_queue, dump_file_handle,
                   dump_thread, wpc, wlocal, handles, disk, ppc, pframe,
                   budget>>
    /\ UNCHANGED pvars
    /\ UNCHANGED cvars
    /\ UNCHANGED fvars
    /\ UNCHANGED ovars

\* stop(): the thread is not alive (join skipped) or join returns because
\* the thread ended; then self.is_running = False
DumpStopJoined ==
    /\ cpc = "stop_join"
    /\ ~Alive(dump_thread)
    /\ dump_is_running' = FALSE
    /\ cpc' = "idle"
    /\ UNCHANGED <<dump_stop_event, dump_frame_queue, dump_file_handle,
                   dump_thread, wpc, wlocal, handles, disk, ppc, pframe,
                   budget, hist>>
    /\ UNCHANGED pvars
    /\ UNCHANGED cvars
    /\ UNCHANGED fvars
    /\ UNCHANGED ovars

\* A join() without timeout: stop() goes on only when the thread has ended.
DumpStopJoinNoTimeout ==
    /\ cpc = "stop_join"
    /\ ~Alive(dump_thread)
    /\ dump_is_running' = FALSE
    /\ cpc' = "idle"
    /\ UNCHANGED <<dump_stop_event, dump_frame_queue, dump_file_handle,
                   dump_thread, wpc, wlocal, handles, disk, ppc, pframe,
                   budget, hist>>
    /\ UNCHANGED pvars
    /\ UNCHANGED cvars
    /\ UNCHANGED fvars
    /\ UNCHANGED ovars

\* stop(): join(timeout=10) gives up on a thread that is still alive; then
\* self.is_running = False
DumpStopJoinTimeout ==
    /\ cpc = "stop_join"
    /\ Alive(dump_thread)
    /\ dump_is_running' = FALSE
    /\ cpc' = "idle"
    /\ hist' = [hist EXCEPT !.timed_out = TRUE]
    /\ UNCHANGED <<dump_stop_event, dump_frame_queue, dump_file_handle,
                   dump_thread, wpc, wlocal, handles, disk, ppc, pframe,
                   budget>>
    /\ UNCHANGED pvars
    /\ UNCHANGED cvars
    /\ UNCHANGED fvars
    /\ UNCHANGED ovars

(***************************************************************************)
(* Dumph26x.write_frame, called by the network-callback thread.            *)
(***************************************************************************)
\* The call is made after start() returned and before stop() is called.
InWindow == cpc = "idle" /\ dump_is_running

\* write_frame(): `if self.is_running` is false: warning, frame dropped.
WriteFrameNotRunning ==
    /\ ppc = "idle"
    /\ budget.submits > 0
    /\ ~dump_is_running
    /\ \E f \in Payloads :
        /\ budget' = [budget EXCEPT !.submits = @ - 1]
        /\ hist' = [hist EXCEPT !.racy = TRUE, !.dropped = @ + 1]
    /\ UNCHANGED <<dump_is_running, dump_stop_event, dump_frame_queue,
                   dump_file_handle, dump_thread, wpc, wlocal, handles, disk,
                   cpc, ppc, pframe>>
    /\ UNCHANGED pvars
    /\ UNCHANGED cvars
    /\ UNCHANGED fvars
    /\ UNCHANGED ovars

\* write_frame(): `if self.is_running` is true, the put is about to be made.
WriteFrameRunning ==
    /\ ppc = "idle"
    /\ budget.submits > 0
    /\ dump_is_running
    /\ \E f \in Payloads :
        /\ pframe' = f
        /\ hist' = IF InWindow THEN [hist EXCEPT !.sub = Append(@, f)]
                   ELSE [hist EXCEPT !.racy = TRUE]
    /\ ppc' = "put"
    /\ budget' = [budget EXCEPT !.submits = @ - 1]
    /\ UNCHANGED <<dump_is_running, dump_stop_event, dump_frame_queue,
                   dump_file_handle, dump_thread, wpc, wlocal, handles, disk,
                   cpc>>
    /\ UNCHANGED pvars
    /\ UNCHANGED cvars
    /\ UNCHANGED fvars
    /\ UNCHANGED ovars

\* write_frame(): self.frame_queue.put(frame_data, timeout=10.0); queue.Full
\* is caught and the frame dropped.
WriteFramePut ==
    /\ ppc = "put"
    /\ dump_frame_queue' =
          IF QueueFull(dump_frame_queue, DumpQueueMaxsize)
          THEN dump_frame_queue
          ELSE Append(dump_frame_queue, pframe)
    /\ ppc' = "idle"
    /\ pframe' = <<>>
    /\ hist' = [hist EXCEPT !.late = @ \/ hist.stopped]
    /\ UNCHANGED <<dump_is_running, dump_stop_event, dump_file_handle,
                   dump_thread, wpc, wlocal, handles, disk, cpc, budget>>
    /\ UNCHANGED pvars
    /\ UNCHANGED cvars
    /\ UNCHANGED fvars
    /\ UNCHANGED ovars

(***************************************************************************)
(* Dumph26x._dump_worker, one thread per start().                          *)
(***************************************************************************)
\* self.file_handle = open(self.file_path, 'wb'); frames_written = 0.
\* 'wb' truncates the file. A failing open raises into `except Exception`.
DumpWorkerOpen(w) ==
    /\ wpc[w] = "open"
    /\ \/ /\ handles' = [handles EXCEPT ![w] = [st |-> "open", pos |-> 0,
                                                 buf |-> <<>>]]
          /\ disk' = <<>>
          /\ dump_file_handle' = w
          /\ wpc' = [wpc EXCEPT ![w] = "loop"]
          /\ UNCHANGED <<budget, hist>>
       \/ /\ budget.faults > 0
          /\ budget' = [budget EXCEPT !.faults = @ - 1]
          /\ hist' = [hist EXCEPT !.fault = TRUE,
                                  !.open_failed = @ \cup {w}]
          /\ wpc' = [wpc EXCEPT ![w] = "finally"]
          /\ UNCHANGED <<handles, disk, dump_file_handle>>
    /\ UNCHANGED <<dump_is_running, dump_stop_event, dump_frame_queue,
                   dump_thread, wlocal, cpc, ppc, pframe>>
    /\ UNCHANGED pvars
    /\ UNCHANGED cvars
    /\ UNCHANGED fvars
    /\ UNCHANGED ovars

\* while not self.stop_event.is_set(): ... ; remaining_frames = 0
DumpWorkerLoop(w) ==
    /\ wpc[w] = "loop"
    /\ wpc' = [wpc EXCEPT ![w] = IF dump_stop_event THEN "drain" ELSE "get"]
    /\ UNCHANGED <<dump_is_running, dump_stop_event, dump_frame_queue,
                   dump_file_handle, dump_thread, wlocal, handles, disk, cpc,
                   ppc, pframe, budget, hist>>
    /\ UNCHANGED pvars
    /\ UNCHANGED cvars
    /\ UNCHANGED fvars
    /\ UNCHANGED ovars

\* frame_data = self.frame_queue.get(timeout=0.1); frames_written += 1
\* queue.Empty after the timeout: continue
DumpWorkerGet(w) ==
    /\ wpc[w] = "get"
    /\ IF dump_frame_queue # <<>>
       THEN /\ dump_frame_queue' = Tail(dump_frame_queue)
            /\ wlocal' = [wlocal EXCEPT
                             ![w].frame_data = Head(dump_frame_queue),
                             ![w].frames_written = @ + 1]
            /\ wpc' = [wpc EXCEPT ![w] = "write"]
       ELSE /\ wpc' = [wpc EXCEPT ![w] = "loop"]
            /\ UNCHANGED <<dump_frame_queue, wlocal>>
    /\ UNCHANGED <<dump_is_running, dump_stop_event, dump_file_handle,
                   dump_thread, handles, disk, cpc, ppc, pframe, budget, hist>>
    /\ UNCHANGED pvars
    /\ UNCHANGED cvars
    /\ UNCHANGED fvars
    /\ UNCHANGED ovars

\* A worker that catches the error of a write and goes on with the next frame.
WorkerWriteSwallowed(w, from, ok) ==
    /\ wpc[w] = from
    /\ \/ /\ Usable(dump_file_handle)
          /\ handles' = FileWrite(dump_file_handle, wlocal[w].frame_data)
          /\ wpc' = [wpc EXCEPT ![w] = ok]
          /\ wlocal' = IF from = "drain_write"
                       THEN [wlocal EXCEPT ![w].remaining_frames = @ + 1]
                       ELSE wlocal
          /\ UNCHANGED <<budget, hist>>
       \/ /\ Usable(dump_file_handle)
          /\ budget.faults > 0
          /\ budget' = [budget EXCEPT !.faults = @ - 1]
          /\ hist' = [hist EXCEPT !.fault = TRUE]
          /\ wpc' = [wpc EXCEPT ![w] = IF from = "write" THEN "loop"
                                       ELSE "drain"]
          /\ UNCHANGED <<handles, wlocal>>
       \/ /\ ~Usable(dump_file_handle)
          /\ wpc' = [wpc EXCEPT ![w] = "finally"]
          /\ UNCHANGED <<handles, wlocal, budget, hist>>
    /\ UNCHANGED <<dump_is_running, dump_stop_event, dump_frame_queue,
                   dump_file_handle, dump_thread, disk, cpc, ppc, pframe>>
    /\ UNCHANGED pvars
    /\ UNCHANGED cvars
    /\ UNCHANGED fvars
    /\ UNCHANGED ovars

\* self.file_handle.write(frame_data), in the main loop (then flush) and in
\* the drain loop (then remaining_frames += 1). The attribute is read at
\* the call: None or a closed file raises, and so does an I/O fault.
WorkerWrite(w, from, ok) ==
    /\ wpc[w] = from
    /\ \/ /\ Usable(dump_file_handle)
          /\ handles' = FileWrite(dump_file_handle, wlocal[w].frame_data)
          /\ wpc' = [wpc EXCEPT ![w] = ok]
          /\ wlocal' = IF from = "drain_write"
                       THEN [wlocal EXCEPT ![w].remaining_frames = @ + 1]
                       ELSE wlocal
          /\ UNCHANGED <<budget, hist>>
       \/ /\ Usable(dump_file_handle)
          /\ budget.faults > 0
          /\ budget' = [budget EXCEPT !.faults = @ - 1]
          /\ hist' = [hist EXCEPT !.fault = TRUE]
          /\ wpc' = [wpc EXCEPT ![w] = "finally"]
          /\ UNCHANGED <<handles, wlocal>>
       \/ /\ ~Usable(dump_file_handle)
          /\ wpc' = [wpc EXCEPT ![w] = "finally"]
          /\ UNCHANGED <<handles, wlocal, budget, hist>>
    /\ UNCHANGED <<dump_is_running, dump_stop_event, dump_frame_queue,
                   dump_file_handle, dump_thread, disk, cpc, ppc, pframe>>
    /\ UNCHANGED pvars
    /\ UNCHANGED cvars
    /\ UNCHANGED fvars
    /\ UNCHANGED ovars

DumpWorkerWrite(w) == WorkerWrite(w, "write", "flush")

\* self.file_handle.flush()
DumpWorkerFlush(w) ==
    /\ wpc[w] = "flush"
    /\ \/ /\ Usable(dump_file_handle)
          /\ disk' = DiskAfterFlush(dump_file_handle)
          /\ handles' = FileFlush(dump_file_handle)
          /\ wpc' = [wpc EXCEPT ![w] = "loop"]
          /\ UNCHANGED <<budget, hist>>
       \/ /\ Usable(dump_file_handle)
          /\ budget.faults > 0
          /\ budget' = [budget EXCEPT !.faults = @ - 1]
          /\ hist' = [hist EXCEPT !.fault = TRUE]
          /\ wpc' = [wpc EXCEPT ![w] = "finally"]
          /\ UNCHANGED <<handles, disk>>
       \/ /\ ~Usable(dump_file_handle)
          /\ wpc' = [wpc EXCEPT ![w] = "finally"]
          /\ UNCHANGED <<handles, disk, budget, hist>>
    /\ UNCHANGED <<dump_is_running, dump_stop_event, dump_frame_queue,
                   dump_file_handle, dump_thread, wlocal, cpc, ppc, pframe>>
    /\ UNCHANGED pvars
    /\ UNCHANGED cvars
    /\ UNCHANGED fvars
    /\ UNCHANGED ovars

\* while not self.frame_queue.empty(): frame_data = get_nowait() ...
\* (queue.Empty: break); after the loop the total is printed.
DumpWorkerDrain(w) ==
    /\ wpc[w] = "drain"
    /\ IF dump_frame_queue # <<>>
       THEN /\ dump_frame_queue' = Tail(dump_frame_queue)
            /\ wlocal' = [wlocal EXCEPT
                             ![w].frame_data = Head(dump_frame_queue)]
            /\ wpc' = [wpc EXCEPT ![w] = "drain_write"]
       ELSE /\ wlocal' = [wlocal EXCEPT ![w].total =
                             wlocal[w].frames_written
                             + wlocal[w].remaining_frames]
            /\ wpc' = [wpc EXCEPT ![w] = "finally"]
            /\ UNCHANGED dump_frame_queue
    /\ UNCHANGED <<dump_is_running, dump_stop_event, dump_file_handle,
                   dump_thread, handles, disk, cpc, ppc, pframe, budget, hist>>
    /\ UNCHANGED pvars
    /\ UNCHANGED cvars
    /\ UNCHANGED fvars
    /\ UNCHANGED ovars

DumpWorkerDrainWrite(w) == WorkerWrite(w, "drain_write", "drain")

\* finally: if self.file_handle: self.file_handle.close()
DumpWorkerFinally(w) ==
    /\ wpc[w] = "finally"
    /\ IF dump_file_handle # None
       THEN /\ disk' = DiskAfterClose(dump_file_handle)
            /\ handles' = FileClose(dump_file_handle)
            /\ wpc' = [wpc EXCEPT ![w] = "finally_clear"]
       ELSE /\ wpc' = [wpc EXCEPT ![w] = "done"]
            /\ UNCHANGED <<disk, handles>>
    /\ UNCHANGED <<dump_is_running, dump_stop_event, dump_frame_queue,
                   dump_file_handle, dump_thread, wlocal, cpc, ppc, pframe,
                   budget, hist>>
    /\ UNCHANGED pvars
    /\ UNCHANGED cvars
    /\ UNCHANGED fvars
    /\ UNCHANGED ovars

\* finally: self.file_handle = None; the thread ends.
DumpWorkerFinallyClear(w) ==
    /\ wpc[w] = "finally_clear"
    /\ dump_file_handle' = None
    /\ wpc' = [wpc EXCEPT ![w] = "done"]
    /\ UNCHANGED <<dump_is_running, dump_stop_event, dump_frame_queue,
                   dump_thread, wlocal, handles, disk, cpc, ppc, pframe,
                   budget, hist>>
    /\ UNCHANGED pvars
    /\ UNCHANGED cvars
    /\ UNCHANGED fvars
    /\ UNCHANGED ovars

DumpWorker(w) ==
    \/ DumpWorkerOpen(w)
    \/ DumpWorkerLoop(w)
    \/ DumpWorkerGet(w)
    \/ DumpWorkerWrite(w)
    \/ DumpWorkerFlush(w)
    \/ DumpWorkerDrain(w)
    \/ DumpWorkerDrainWrite(w)
    \/ DumpWorkerFinally(w)
    \/ DumpWorkerFinallyClear(w)

DumpNext ==
    \/ DumpStartNoop
    \/ DumpStartThread
    \/ DumpStartSetRunning
    \/ DumpStopNoop
    \/ DumpStopSignal
    \/ DumpStopJoined
    \/ DumpStopJoinTimeout
    \/ WriteFrameNotRunning
    \/ WriteFrameRunning
    \/ WriteFramePut
    \/ \E w \in Workers : DumpWorker(w)

(***************************************************************************)
(* PreviewH26xWnd and DecodeH26x (preview.py).                             *)
(***************************************************************************)
\* queue.Queue(maxsize=3) of PreviewH26xWnd.__init__
DisplayQueueMaxsize == 3

\* video_label.setText("Waiting for connect to camera and start stream...")
Placeholder == 0

DAlive(d) == d # None /\ dpc[d] \notin {"unborn", "done"}
VAlive(v) == v # None /\ vpc[v] \notin {"unborn", "done"}

NoPHist == [cycle |-> 0, pushed |-> 0, stopped |-> FALSE,
            dec_timed_out |-> FALSE, disp_timed_out |-> FALSE,
            dropped |-> 0, disp_dropped |-> 0, redundant |-> {},
            full_dropped |-> 0, disp_full_dropped |-> 0, failed_unit |-> 0,
            start_mark |-> 0]

PreviewInit(starts, pushes, faults) ==
    /\ dec_running = FALSE
    /\ dec_stop_event = FALSE
    /\ dec_frame_queue = <<>>
    /\ decode_thread = None
    /\ dpc = [d \in PWorkers |-> "unborn"]
    /\ dunit = [d \in PWorkers |-> None]
    /\ display_running = FALSE
    /\ display_thread = None
    /\ display_queue = <<>>
    /\ current_image = None
    /\ video_label = Placeholder
    /\ vpc = [v \in PWorkers |-> "unborn"]
    /\ vframe = [v \in PWorkers |-> None]
    /\ qt_events = <<>>
    /\ gpc = "idle"
    /\ gframe = None
    /\ kpc = "idle"
    /\ npc = "idle"
    /\ nunit = None
    /\ pbudget = [starts |-> starts, pushes |-> pushes, faults |-> faults]
    /\ phist = NoPHist

NextPWorker == phist.cycle + 1

(***************************************************************************)
(* DecodeH26x._init_codec, run by DecodeH26x.__init__ in the thread that   *)
(* constructs the PreviewH26xWnd.                                          *)
(***************************************************************************)
\* The constructor has returned: the usual case, an H.264 decoder.
CodecConstructed ==
    /\ ipc = "constructed"
    /\ codec = "h264"
    /\ codec_tried = <<"h264">>

\* self.codec = None; _init_codec() is about to run.
CodecUnconstructed ==
    /\ ipc = "create_h264"
    /\ codec = "none"
    /\ codec_tried = <<>>

\* The DecodeH26x object exists: its constructor has returned.
Constructed == ipc = "constructed"

\* An _init_codec without the inner try: a failure of the H.264 create is
\* raised at once.
InitCodecCreateH264NoFallback ==
    /\ ipc = "create_h264"
    /\ codec_tried' = Append(codec_tried, "h264")
    /\ \/ codec' = "h264" /\ ipc' = "open"
       \/ codec' = codec /\ ipc' = "raised"
    /\ UNCHANGED <<wvars, pvars, ovars, fvars>>

\* try: self.codec = av.CodecContext.create('h264', 'r')
\* except Exception: go on to the H.265 attempt
InitCodecCreateH264 ==
    /\ ipc = "create_h264"
    /\ codec_tried' = Append(codec_tried, "h264")
    /\ \/ codec' = "h264" /\ ipc' = "open"
       \/ codec' = codec /\ ipc' = "create_hevc"
    /\ UNCHANGED <<wvars, pvars, ovars, fvars>>

\* try: self.codec = av.CodecContext.create('hevc', 'r')
\* except Exception: print, raise
InitCodecCreateHevc ==
    /\ ipc = "create_hevc"
    /\ codec_tried' = Append(codec_tried, "hevc")
    /\ \/ codec' = "hevc" /\ ipc' = "open"
       \/ codec' = codec /\ ipc' = "raised"
    /\ UNCHANGED <<wvars, pvars, ovars, fvars>>

\* self.codec.options.update(...); self.codec.open(): outside the try, so
\* a failure is raised to the caller of the constructor.
InitCodecOpen ==
    /\ ipc = "open"
    /\ ipc' \in {"constructed", "raised"}
    /\ UNCHANGED <<codec, codec_tried, wvars, pvars,
                   ovars, fvars>>

InitCodecNext ==
    \/ InitCodecCreateH264
    \/ InitCodecCreateHevc
    \/ InitCodecOpen

\* PreviewH26xWnd.start() while display_running: prints and returns.
PreviewStartNoop ==
    /\ kpc = "idle"
    /\ display_running
    /\ phist' = [phist EXCEPT !.redundant = @ \cup {"start"}]
    /\ UNCHANGED <<dec_running, dec_stop_event, dec_frame_queue, decode_thread,
                   dpc, dunit, display_running, display_thread, display_queue,
                   current_image, video_label, vpc, vframe, qt_events, gpc,
                   gframe, kpc, npc, nunit, pbudget>>
    /\ UNCHANGED wvars
    /\ UNCHANGED cvars
    /\ UNCHANGED fvars
    /\ UNCHANGED ovars

\* PreviewH26xWnd.start() -> DecodeH26x.start(): returns at once if running,
\* else self.running = True
PreviewStartDecoder ==
    /\ Constructed
    /\ kpc = "idle"
    /\ ~display_running
    /\ pbudget.starts > 0
    /\ pbudget' = [pbudget EXCEPT !.starts = @ - 1]
    /\ IF dec_running
       THEN /\ kpc' = "start_display"
            /\ UNCHANGED dec_running
       ELSE /\ kpc' = "start_dec_clear"
            /\ dec_running' = TRUE
    /\ phist' = [phist EXCEPT !.cycle = @ + 1, !.stopped = FALSE,
                              !.start_mark = IF npc = "put" THEN phist.pushed - 1
                                             ELSE phist.pushed]
    /\ UNCHANGED <<dec_stop_event, dec_frame_queue, decode_thread, dpc, dunit,
                   display_running, display_thread, display_queue,
                   current_image, video_label, vpc, vframe, qt_events, gpc,
                   gframe, npc, nunit>>
    /\ UNCHANGED wvars
    /\ UNCHANGED cvars
    /\ UNCHANGED fvars
    /\ UNCHANGED ovars

\* DecodeH26x.start(): self.stop_event.clear()
DecoderStartClear ==
    /\ kpc = "start_dec_clear"
    /\ dec_stop_event' = FALSE
    /\ kpc' = "start_dec_thread"
    /\ UNCHANGED <<dec_running, dec_frame_queue, decode_thread, dpc, dunit,
                   display_running, display_thread, display_queue,
                   current_image, video_label, vpc, vframe, qt_events, gpc,
                   gframe, npc, nunit, pbudget, phist>>
    /\ UNCHANGED wvars
    /\ UNCHANGED cvars
    /\ UNCHANGED fvars
    /\ UNCHANGED ovars

\* DecodeH26x.start(): threading.Thread(target=self._decode_worker).start()
DecoderStartThread ==
    /\ kpc = "start_dec_thread"
    /\ decode_thread' = phist.cycle
    /\ dpc' = [dpc EXCEPT ![phist.cycle] = "loop"]
    /\ kpc' = "start_display"
    /\ UNCHANGED <<dec_running, dec_stop_event, dec_frame_queue, dunit,
                   display_running, display_thread, display_queue,
                   current_image, video_label, vpc, vframe, qt_events, gpc,
                   gframe, npc, nunit, pbudget, phist>>
    /\ UNCHANGED wvars
    /\ UNCHANGED cvars
    /\ UNCHANGED fvars
    /\ UNCHANGED ovars

\* PreviewH26xWnd.start(): self.display_running = True
PreviewStartSetRunning ==
    /\ kpc = "start_display"
    /\ display_running' = TRUE
    /\ kpc' = "start_display_thread"
    /\ UNCHANGED <<dec_running, dec_stop_event, dec_frame_queue, decode_thread,
                   dpc, dunit, display_thread, display_queue, current_image,
                   video_label, vpc, vframe, qt_events, gpc, gframe, npc,
                   nunit, pbudget, phist>>
    /\ UNCHANGED wvars
    /\ UNCHANGED cvars
    /\ UNCHANGED fvars
    /\ UNCHANGED ovars

\* PreviewH26xWnd.start(): threading.Thread(target=self._display_worker)
\* .start()
PreviewStartThread ==
    /\ kpc = "start_display_thread"
    /\ display_thread' = phist.cycle
    /\ vpc' = [vpc EXCEPT ![phist.cycle] = "loop"]
    /\ kpc' = "idle"
    /\ UNCHANGED <<dec_running, dec_stop_event, dec_frame_queue, decode_thread,
                   dpc, dunit, display_running, display_queue, current_image,
                   video_label, vframe, qt_events, gpc, gframe, npc,
                   nunit, pbudget, phist>>
    /\ UNCHANGED wvars
    /\ UNCHANGED cvars
    /\ UNCHANGED fvars
    /\ UNCHANGED ovars

\* PreviewH26xWnd.stop() while not display_running: prints and returns.
PreviewStopNoop ==
    /\ Constructed
    /\ kpc = "idle"
    /\ ~display_running
    /\ phist' = [phist EXCEPT !.redundant = @ \cup {"stop"}]
    /\ UNCHANGED <<dec_running, dec_stop_event, dec_frame_queue, decode_thread,
                   dpc, dunit, display_running, display_thread, display_queue,
                   current_image, video_label, vpc, vframe, qt_events, gpc,
                   gframe, kpc, npc, nunit, pbudget>>
    /\ UNCHANGED wvars
    /\ UNCHANGED cvars
    /\ UNCHANGED fvars
    /\ UNCHANGED ovars

\* PreviewH26xWnd.stop() -> DecodeH26x.stop(): returns at once if not
\* running, else self.running = False
PreviewStopDecoder ==
    /\ kpc = "idle"
    /\ display_running
    /\ IF dec_running
       THEN /\ dec_running' = FALSE
            /\ kpc' = "stop_dec_signal"
       ELSE /\ kpc' = "stop_display"
            /\ UNCHANGED dec_running
    /\ phist' = [phist EXCEPT !.stopped = TRUE]
    /\ UNCHANGED <<dec_stop_event, dec_frame_queue, decode_thread, dpc, dunit,
                   display_running, display_thread, display_queue,
                   current_image, video_label, vpc, vframe, qt_events, gpc,
                   gframe, npc, nunit, pbudget>>
    /\ UNCHANGED wvars
    /\ UNCHANGED cvars
    /\ UNCHANGED fvars
    /\ UNCHANGED ovars

\* DecodeH26x.stop(): self.stop_event.set()
DecoderStopSignal ==
    /\ kpc = "stop_dec_signal"
    /\ dec_stop_event' = TRUE
    /\ kpc' = "stop_dec_join"
    /\ UNCHANGED <<dec_running, dec_frame_queue, decode_thread, dpc, dunit,
                   display_running, display_thread, display_queue,
                   current_image, video_label, vpc, vframe, qt_events, gpc,
                   gframe, npc, nunit, pbudget, phist>>
    /\ UNCHANGED wvars
    /\ UNCHANGED cvars
    /\ UNCHANGED fvars
    /\ UNCHANGED ovars

\* DecodeH26x.stop(): the thread is not alive, or join returns at its end
DecoderStopJoined ==
    /\ kpc = "stop_dec_join"
    /\ ~DAlive(decode_thread)
    /\ kpc' = "stop_display"
    /\ UNCHANGED <<dec_running, dec_stop_event, dec_frame_queue, decode_thread,
                   dpc, dunit, display_running, display_thread, display_queue,
                   current_image, video_label, vpc, vframe, qt_events, gpc,
                   gframe, npc, nunit, pbudget, phist>>
    /\ UNCHANGED wvars
    /\ UNCHANGED cvars
    /\ UNCHANGED fvars
    /\ UNCHANGED ovars

\* DecodeH26x.stop(): join(timeout=5) gives up on a thread still alive
DecoderStopJoinTimeout ==
    /\ kpc = "stop_dec_join"
    /\ DAlive(decode_thread)
    /\ kpc' = "stop_display"
    /\ phist' = [phist EXCEPT !.dec_timed_out = TRUE]
    /\ UNCHANGED <<dec_running, dec_stop_event, dec_frame_queue, decode_thread,
                   dpc, dunit, display_running, display_thread, display_queue,
                   current_image, video_label, vpc, vframe, qt_events, gpc,
                   gframe, npc, nunit, pbudget>>
    /\ UNCHANGED wvars
    /\ UNCHANGED cvars
    /\ UNCHANGED fvars
    /\ UNCHANGED ovars

\* PreviewH26xWnd.stop(): self.display_running = False
PreviewStopSetRunning ==
    /\ kpc = "stop_display"
    /\ display_running' = FALSE
    /\ kpc' = "stop_display_join"
    /\ UNCHANGED <<dec_running, dec_stop_event, dec_frame_queue, decode_thread,
                   dpc, dunit, display_thread, display_queue, current_image,
                   video_label, vpc, vframe, qt_events, gpc, gframe, npc,
                   nunit, pbudget, phist>>
    /\ UNCHANGED wvars
    /\ UNCHANGED cvars
    /\ UNCHANGED fvars
    /\ UNCHANGED ovars

\* PreviewH26xWnd.stop(): the thread is not alive, or join returns at its end
PreviewStopJoined ==
    /\ kpc = "stop_display_join"
    /\ ~VAlive(display_thread)
    /\ kpc' = "stop_text"
    /\ UNCHANGED <<dec_running, dec_stop_event, dec_frame_queue, decode_thread,
                   dpc, dunit, display_running, display_thread, display_queue,
                   current_image, video_label, vpc, vframe, qt_events, gpc,
                   gframe, npc, nunit, pbudget, phist>>
    /\ UNCHANGED wvars
    /\ UNCHANGED cvars
    /\ UNCHANGED fvars
    /\ UNCHANGED ovars

\* PreviewH26xWnd.stop(): join(timeout=5) gives up on a thread still alive
PreviewStopJoinTimeout ==
    /\ kpc = "stop_display_join"
    /\ VAlive(display_thread)
    /\ kpc' = "stop_text"
    /\ phist' = [phist EXCEPT !.disp_timed_out = TRUE]
    /\ UNCHANGED <<dec_running, dec_stop_event, dec_frame_queue, decode_thread,
                   dpc, dunit, display_running, display_thread, display_queue,
                   current_image, video_label, vpc, vframe, qt_events, gpc,
                   gframe, npc, nunit, pbudget>>
    /\ UNCHANGED wvars
    /\ UNCHANGED cvars
    /\ UNCHANGED fvars
    /\ UNCHANGED ovars

\* PreviewH26xWnd.stop(): self.video_label.setText("Waiting for ...")
PreviewStopSetText ==
    /\ kpc = "stop_text"
    /\ video_label' = Placeholder
    /\ kpc' = "stop_clear"
    /\ UNCHANGED <<dec_running, dec_stop_event, dec_frame_queue, decode_thread,
                   dpc, dunit, display_running, display_thread, display_queue,
                   current_image, vpc, vframe, qt_events, gpc, gframe, npc,
                   nunit, pbudget, phist>>
    /\ UNCHANGED wvars
    /\ UNCHANGED cvars
    /\ UNCHANGED fvars
    /\ UNCHANGED ovars

\* PreviewH26xWnd.stop(): self._current_image = None
PreviewStopClearImage ==
    /\ kpc = "stop_clear"
    /\ current_image' = None
    /\ kpc' = "idle"
    /\ UNCHANGED <<dec_running, dec_stop_event, dec_frame_queue, decode_thread,
                   dpc, dunit, display_running, display_thread, display_queue,
                   video_label, vpc, vframe, qt_events, gpc, gframe, npc,
                   nunit, pbudget, phist>>
    /\ UNCHANGED wvars
    /\ UNCHANGED cvars
    /\ UNCHANGED fvars
    /\ UNCHANGED ovars

(***************************************************************************)
(* PreviewH26xWnd.push_frame -> DecodeH26x.push_frame, called by the       *)
(* network-callback thread. A unit is named by its order of submission.    *)
(***************************************************************************)
\* A push_frame that lacks the `if not self.running` test: the unit is put
\* whatever the state of the decoder.
PushFrameUnchecked ==
    /\ Constructed
    /\ npc = "idle"
    /\ pbudget.pushes > 0
    /\ ~dec_running
    /\ pbudget' = [pbudget EXCEPT !.pushes = @ - 1]
    /\ phist' = [phist EXCEPT !.pushed = @ + 1, !.dropped = @ + 1]
    /\ dec_frame_queue' = Append(dec_frame_queue, phist.pushed + 1)
    /\ UNCHANGED <<dec_running, dec_stop_event, decode_thread,
                   dpc, dunit, display_running, display_thread, display_queue,
                   current_image, video_label, vpc, vframe, qt_events, gpc,
                   gframe, kpc, npc, nunit>>
    /\ UNCHANGED wvars
    /\ UNCHANGED cvars
    /\ UNCHANGED fvars
    /\ UNCHANGED ovars

\* push_frame(): `if not self.running`: warning, frame dropped
PushFrameNotRunning ==
    /\ Constructed
    /\ npc = "idle"
    /\ pbudget.pushes > 0
    /\ ~dec_running
    /\ pbudget' = [pbudget EXCEPT !.pushes = @ - 1]
    /\ phist' = [phist EXCEPT !.pushed = @ + 1, !.dropped = @ + 1]
    /\ UNCHANGED <<dec_running, dec_stop_event, dec_frame_queue, decode_thread,
                   dpc, dunit, display_running, display_thread, display_queue,
                   current_image, video_label, vpc, vframe, qt_events, gpc,
                   gframe, kpc, npc, nunit>>
    /\ UNCHANGED wvars
    /\ UNCHANGED cvars
    /\ UNCHANGED fvars
    /\ UNCHANGED ovars

\* push_frame(): self.running is true; frame_info = (frame_type, data)
PushFrameRunning ==
    /\ npc = "idle"
    /\ pbudget.pushes > 0
    /\ dec_running
    /\ pbudget' = [pbudget EXCEPT !.pushes = @ - 1]
    /\ phist' = [phist EXCEPT !.pushed = @ + 1]
    /\ nunit' = phist.pushed + 1
    /\ npc' = "put"
    /\ UNCHANGED <<dec_running, dec_stop_event, dec_frame_queue, decode_thread,
                   dpc, dunit, display_running, display_thread, display_queue,
                   current_image, video_label, vpc, vframe, qt_events, gpc,
                   gframe, kpc>>
    /\ UNCHANGED wvars
    /\ UNCHANGED cvars
    /\ UNCHANGED fvars
    /\ UNCHANGED ovars

\* A put without timeout: push_frame waits until the queue has room.
PushFramePutBlocking ==
    /\ npc = "put"
    /\ ~QueueFull(dec_frame_queue, queue_size)
    /\ dec_frame_queue' = Append(dec_frame_queue, nunit)
    /\ npc' = "idle"
    /\ nunit' = None
    /\ UNCHANGED <<dec_running, dec_stop_event, decode_thread, dpc, dunit,
                   display_running, display_thread, display_queue,
                   current_image, video_label, vpc, vframe, qt_events, gpc,
                   gframe, kpc, pbudget, phist>>
    /\ UNCHANGED wvars
    /\ UNCHANGED cvars
    /\ UNCHANGED fvars
    /\ UNCHANGED ovars

\* push_frame(): self.frame_queue.put(frame_info, timeout=0.1); queue.Full
\* after the wait is caught and the frame dropped
PushFramePut ==
    /\ npc = "put"
    /\ dec_frame_queue' =
          IF QueueFull(dec_frame_queue, queue_size)
          THEN dec_frame_queue
          ELSE Append(dec_frame_queue, nunit)
    /\ phist' = IF QueueFull(dec_frame_queue, queue_size)
                THEN [phist EXCEPT !.full_dropped = @ + 1]
                ELSE phist
    /\ npc' = "idle"
    /\ nunit' = None
    /\ UNCHANGED <<dec_running, dec_stop_event, decode_thread, dpc, dunit,
                   display_running, display_thread, display_queue,
                   current_image, video_label, vpc, vframe, qt_events, gpc,
                   gframe, kpc, pbudget>>
    /\ UNCHANGED wvars
    /\ UNCHANGED cvars
    /\ UNCHANGED fvars
    /\ UNCHANGED ovars

(***************************************************************************)
(* DecodeH26x._decode_worker, one thread per DecodeH26x.start().           *)
(***************************************************************************)
\* A decode worker that goes on taking units after the stop until the queue
\* is empty.
DecodeWorkerLoopDraining(d) ==
    /\ dpc[d] = "loop"
    /\ dpc' = [dpc EXCEPT ![d] = IF (dec_running /\ ~dec_stop_event)
                                    \/ dec_frame_queue # <<>>
                                 THEN "get" ELSE "done"]
    /\ UNCHANGED <<dec_running, dec_stop_event, dec_frame_queue, decode_thread,
                   dunit, display_running, display_thread, display_queue,
                   current_image, video_label, vpc, vframe, qt_events, gpc,
                   gframe, kpc, npc, nunit, pbudget, phist>>
    /\ UNCHANGED wvars
    /\ UNCHANGED cvars
    /\ UNCHANGED fvars
    /\ UNCHANGED ovars

\* while self.running and not self.stop_event.is_set():
DecodeWorkerLoop(d) ==
    /\ dpc[d] = "loop"
    /\ dpc' = [dpc EXCEPT ![d] = IF dec_running /\ ~dec_stop_event
                                 THEN "get" ELSE "done"]
    /\ UNCHANGED <<dec_running, dec_stop_event, dec_frame_queue, decode_thread,
                   dunit, display_running, display_thread, display_queue,
                   current_image, video_label, vpc, vframe, qt_events, gpc,
                   gframe, kpc, npc, nunit, pbudget, phist>>
    /\ UNCHANGED wvars
    /\ UNCHANGED cvars
    /\ UNCHANGED fvars
    /\ UNCHANGED ovars

\* frame_info = self.frame_queue.get(timeout=0.01); queue.Empty: continue
DecodeWorkerGet(d) ==
    /\ dpc[d] = "get"
    /\ IF dec_frame_queue # <<>>
       THEN /\ dec_frame_queue' = Tail(dec_frame_queue)
            /\ dunit' = [dunit EXCEPT ![d] = Head(dec_frame_queue)]
            /\ dpc' = [dpc EXCEPT ![d] = "decode"]
       ELSE /\ dpc' = [dpc EXCEPT ![d] = "loop"]
            /\ UNCHANGED <<dec_frame_queue, dunit>>
    /\ UNCHANGED <<dec_running, dec_stop_event, decode_thread,
                   display_running, display_thread, display_queue,
                   current_image, video_label, vpc, vframe, qt_events, gpc,
                   gframe, kpc, npc, nunit, pbudget, phist>>
    /\ UNCHANGED wvars
    /\ UNCHANGED cvars
    /\ UNCHANGED fvars
    /\ UNCHANGED ovars

\* What the codec makes of one unit: parse or decode raises, or the unit
\* yields no frame, or it yields one frame.
DecodeOutcomes == {"error", "none", "frame"}

\* A decode error that is not caught: the worker thread ends.
DecodeWorkerDecodeFatal(d) ==
    /\ dpc[d] = "decode"
    /\ \E outcome \in DecodeOutcomes :
          /\ outcome = "error" => pbudget.faults > 0
          /\ qt_events' = IF outcome = "frame"
                          THEN Append(qt_events, dunit[d]) ELSE qt_events
          /\ pbudget' = IF outcome = "error"
                        THEN [pbudget EXCEPT !.faults = @ - 1] ELSE pbudget
          /\ phist' = IF outcome = "error"
                      THEN [phist EXCEPT !.failed_unit = dunit[d]] ELSE phist
          /\ dpc' = [dpc EXCEPT ![d] = IF outcome = "error"
                                       THEN "done" ELSE "loop"]
    /\ dunit' = [dunit EXCEPT ![d] = None]
    /\ UNCHANGED <<dec_running, dec_stop_event, dec_frame_queue, decode_thread,
                   display_running, display_thread, display_queue,
                   current_image, video_label, vpc, vframe, gpc, gframe, kpc,
                   npc, nunit>>
    /\ UNCHANGED wvars
    /\ UNCHANGED cvars
    /\ UNCHANGED fvars
    /\ UNCHANGED ovars

\* packets = self.codec.parse(data); frames = self.codec.decode(packet);
\* self.frame_decoded.emit(frame). The signal is emitted from the worker
\* thread to a slot of a widget of the GUI thread: the call is queued.
\* `except Exception`: the error is printed and the loop goes on.
DecodeWorkerDecode(d) ==
    /\ dpc[d] = "decode"
    /\ \E outcome \in DecodeOutcomes :
          /\ outcome = "error" => pbudget.faults > 0
          /\ qt_events' = IF outcome = "frame"
                          THEN Append(qt_events, dunit[d]) ELSE qt_events
          /\ pbudget' = IF outcome = "error"
                        THEN [pbudget EXCEPT !.faults = @ - 1] ELSE pbudget
          /\ phist' = IF outcome = "error"
                      THEN [phist EXCEPT !.failed_unit = dunit[d]] ELSE phist
    /\ dunit' = [dunit EXCEPT ![d] = None]
    /\ dpc' = [dpc EXCEPT ![d] = "loop"]
    /\ UNCHANGED <<dec_running, dec_stop_event, dec_frame_queue, decode_thread,
                   display_running, display_thread, display_queue,
                   current_image, video_label, vpc, vframe, gpc, gframe, kpc,
                   npc, nunit>>
    /\ UNCHANGED wvars
    /\ UNCHANGED cvars
    /\ UNCHANGED fvars
    /\ UNCHANGED ovars

DecodeWorker(d) ==
    \/ DecodeWorkerLoop(d)
    \/ DecodeWorkerGet(d)
    \/ DecodeWorkerDecode(d)

(***************************************************************************)
(* PreviewH26xWnd._on_frame_decoded, run by the GUI thread for each queued *)
(* emission of frame_decoded.                                              *)
(***************************************************************************)
\* `if not self.display_running: return`
OnFrameDecodedNotRunning ==
    /\ gpc = "idle"
    /\ qt_events # <<>>
    /\ ~display_running
    /\ qt_events' = Tail(qt_events)
    /\ phist' = [phist EXCEPT !.disp_dropped = @ + 1]
    /\ UNCHANGED <<dec_running, dec_stop_event, dec_frame_queue, decode_thread,
                   dpc, dunit, display_running, display_thread, display_queue,
                   current_image, video_label, vpc, vframe, gpc, gframe, kpc,
                   npc, nunit, pbudget>>
    /\ UNCHANGED wvars
    /\ UNCHANGED cvars
    /\ UNCHANGED fvars
    /\ UNCHANGED ovars

\* display_running is true: the put is about to be made
OnFrameDecodedRunning ==
    /\ gpc = "idle"
    /\ qt_events # <<>>
    /\ display_running
    /\ qt_events' = Tail(qt_events)
    /\ gframe' = Head(qt_events)
    /\ gpc' = "put"
    /\ UNCHANGED <<dec_running, dec_stop_event, dec_frame_queue, decode_thread,
                   dpc, dunit, display_running, display_thread, display_queue,
                   current_image, video_label, vpc, vframe, kpc, npc, nunit,
                   pbudget, phist>>
    /\ UNCHANGED wvars
    /\ UNCHANGED cvars
    /\ UNCHANGED fvars
    /\ UNCHANGED ovars

\* A put without timeout: the slot waits until the queue has room.
OnFrameDecodedPutBlocking ==
    /\ gpc = "put"
    /\ ~QueueFull(display_queue, DisplayQueueMaxsize)
    /\ display_queue' = Append(display_queue, gframe)
    /\ gpc' = "idle"
    /\ gframe' = None
    /\ UNCHANGED <<dec_running, dec_stop_event, dec_frame_queue, decode_thread,
                   dpc, dunit, display_running, display_thread, current_image,
                   video_label, vpc, vframe, qt_events, kpc, npc, nunit,
                   pbudget, phist>>
    /\ UNCHANGED wvars
    /\ UNCHANGED cvars
    /\ UNCHANGED fvars
    /\ UNCHANGED ovars

\* self.display_queue.put(frame, timeout=0.1); queue.Full: frame dropped
OnFrameDecodedPut ==
    /\ gpc = "put"
    /\ display_queue' =
          IF QueueFull(display_queue, DisplayQueueMaxsize)
          THEN display_queue
          ELSE Append(display_queue, gframe)
    /\ phist' = IF QueueFull(display_queue, DisplayQueueMaxsize)
                THEN [phist EXCEPT !.disp_full_dropped = @ + 1]
                ELSE phist
    /\ gpc' = "idle"
    /\ gframe' = None
    /\ UNCHANGED <<dec_running, dec_stop_event, dec_frame_queue, decode_thread,
                   dpc, dunit, display_running, display_thread, current_image,
                   video_label, vpc, vframe, qt_events, kpc, npc, nunit,
                   pbudget>>
    /\ UNCHANGED wvars
    /\ UNCHANGED cvars
    /\ UNCHANGED fvars
    /\ UNCHANGED ovars

(***************************************************************************)
(* PreviewH26xWnd._display_worker, one thread per PreviewH26xWnd.start().  *)
(***************************************************************************)
\* while self.display_running:
DisplayWorkerLoop(v) ==
    /\ vpc[v] = "loop"
    /\ vpc' = [vpc EXCEPT ![v] = IF display_running THEN "get" ELSE "done"]
    /\ UNCHANGED <<dec_running, dec_stop_event, dec_frame_queue, decode_thread,
                   dpc, dunit, display_running, display_thread, display_queue,
                   current_image, video_label, vframe, qt_events, gpc, gframe,
                   kpc, npc, nunit, pbudget, phist>>
    /\ UNCHANGED wvars
    /\ UNCHANGED cvars
    /\ UNCHANGED fvars
    /\ UNCHANGED ovars

\* frame = self.display_queue.get(timeout=0.01); queue.Empty: continue
DisplayWorkerGet(v) ==
    /\ vpc[v] = "get"
    /\ IF display_queue # <<>>
       THEN /\ display_queue' = Tail(display_queue)
            /\ vframe' = [vframe EXCEPT ![v] = Head(display_queue)]
            /\ vpc' = [vpc EXCEPT ![v] = "convert"]
       ELSE /\ vpc' = [vpc EXCEPT ![v] = "loop"]
            /\ UNCHANGED <<display_queue, vframe>>
    /\ UNCHANGED <<dec_running, dec_stop_event, dec_frame_queue, decode_thread,
                   dpc, dunit, display_running, display_thread, current_image,
                   video_label, qt_events, gpc, gframe, kpc, npc, nunit,
                   pbudget, phist>>
    /\ UNCHANGED wvars
    /\ UNCHANGED cvars
    /\ UNCHANGED fvars
    /\ UNCHANGED ovars

\* rgb_frame = frame.to_ndarray(...); q_image = QImage(...);
\* self._current_image = q_image. A conversion that raises is printed and
\* the loop goes on.
DisplayWorkerConvert(v) ==
    /\ vpc[v] = "convert"
    /\ \/ /\ current_image' = vframe[v]
          /\ vpc' = [vpc EXCEPT ![v] = "update"]
       \/ /\ vpc' = [vpc EXCEPT ![v] = "loop"]
          /\ UNCHANGED current_image
    /\ vframe' = [vframe EXCEPT ![v] = None]
    /\ UNCHANGED <<dec_running, dec_stop_event, dec_frame_queue, decode_thread,
                   dpc, dunit, display_running, display_thread, display_queue,
                   video_label, qt_events, gpc, gframe, kpc, npc, nunit,
                   pbudget, phist>>
    /\ UNCHANGED wvars
    /\ UNCHANGED cvars
    /\ UNCHANGED fvars
    /\ UNCHANGED ovars

\* _update_display(): `if hasattr(...) and self._current_image is not None`
DisplayWorkerUpdate(v) ==
    /\ vpc[v] = "update"
    /\ vpc' = [vpc EXCEPT ![v] = IF current_image # None
                                 THEN "pixmap" ELSE "loop"]
    /\ UNCHANGED <<dec_running, dec_stop_event, dec_frame_queue, decode_thread,
                   dpc, dunit, display_running, display_thread, display_queue,
                   current_image, video_label, vframe, qt_events, gpc, gframe,
                   kpc, npc, nunit, pbudget, phist>>
    /\ UNCHANGED wvars
    /\ UNCHANGED cvars
    /\ UNCHANGED fvars
    /\ UNCHANGED ovars

\* _update_display(): QPixmap.fromImage(self._current_image).scaled(...);
\* self.video_label.setPixmap(...). fromImage(None) raises into the
\* worker's `except Exception`.
DisplayWorkerPixmap(v) ==
    /\ vpc[v] = "pixmap"
    /\ video_label' = IF current_image # None THEN current_image
                      ELSE video_label
    /\ vpc' = [vpc EXCEPT ![v] = "loop"]
    /\ UNCHANGED <<dec_running, dec_stop_event, dec_frame_queue, decode_thread,
                   dpc, dunit, display_running, display_thread, display_queue,
                   current_image, vframe, qt_events, gpc, gframe, kpc, npc,
                   nunit, pbudget, phist>>
    /\ UNCHANGED wvars
    /\ UNCHANGED cvars
    /\ UNCHANGED fvars
    /\ UNCHANGED ovars

DisplayWorker(v) ==
    \/ DisplayWorkerLoop(v)
    \/ DisplayWorkerGet(v)
    \/ DisplayWorkerConvert(v)
    \/ DisplayWorkerUpdate(v)
    \/ DisplayWorkerPixmap(v)

PreviewNext ==
    \/ PreviewStartNoop
    \/ PreviewStartDecoder
    \/ DecoderStartClear
    \/ DecoderStartThread
    \/ PreviewStartSetRunning
    \/ PreviewStartThread
    \/ PreviewStopNoop
    \/ PreviewStopDecoder
    \/ DecoderStopSignal
    \/ DecoderStopJoined
    \/ DecoderStopJoinTimeout
    \/ PreviewStopSetRunning
    \/ PreviewStopJoined
    \/ PreviewStopJoinTimeout
    \/ PreviewStopSetText
    \/ PreviewStopClearImage
    \/ PushFrameNotRunning
    \/ PushFrameRunning
    \/ PushFramePut
    \/ OnFrameDecodedNotRunning
    \/ OnFrameDecodedRunning
    \/ OnFrameDecodedPut
    \/ \E d \in PWorkers : DecodeWorker(d)
    \/ \E v \in PWorkers : DisplayWorker(v)

(***************************************************************************)
(* PreviewH26xWnd.resizeEvent, run by the GUI thread between two slot      *)
(* calls whenever the widget is resized.                                   *)
(***************************************************************************)
\* resizeEvent(): `if hasattr(...) and self._current_image is not None`
ResizeEvent ==
    /\ Constructed
    /\ gpc = "idle"
    /\ gpc' = IF current_image # None THEN "resize_update" ELSE "idle"
    /\ UNCHANGED <<dec_running, dec_stop_event, dec_frame_queue, decode_thread,
                   dpc, dunit, display_running, display_thread, display_queue,
                   current_image, video_label, vpc, vframe, qt_events, gframe,
                   kpc, npc, nunit, pbudget, phist>>
    /\ UNCHANGED wvars
    /\ UNCHANGED cvars
    /\ UNCHANGED fvars
    /\ UNCHANGED ovars

\* _update_display(): `if hasattr(...) and self._current_image is not None`
ResizeUpdate ==
    /\ gpc = "resize_update"
    /\ gpc' = IF current_image # None THEN "resize_pixmap" ELSE "idle"
    /\ UNCHANGED <<dec_running, dec_stop_event, dec_frame_queue, decode_thread,
                   dpc, dunit, display_running, display_thread, display_queue,
                   current_image, video_label, vpc, vframe, qt_events, gframe,
                   kpc, npc, nunit, pbudget, phist>>
    /\ UNCHANGED wvars
    /\ UNCHANGED cvars
    /\ UNCHANGED fvars
    /\ UNCHANGED ovars

\* _update_display(): QPixmap.fromImage(self._current_image).scaled(...);
\* self.video_label.setPixmap(...). fromImage(None) raises out of the event
\* handler and the label is left as it was.
ResizePixmap ==
    /\ gpc = "resize_pixmap"
    /\ video_label' = IF current_image # None THEN current_image
                      ELSE video_label
    /\ gpc' = "idle"
    /\ UNCHANGED <<dec_running, dec_stop_event, dec_frame_queue, decode_thread,
                   dpc, dunit, display_running, display_thread, display_queue,
                   current_image, vpc, vframe, qt_events, gframe,
                   kpc, npc, nunit, pbudget, phist>>
    /\ UNCHANGED wvars
    /\ UNCHANGED cvars
    /\ UNCHANGED fvars
    /\ UNCHANGED ovars

ResizeNext ==
    \/ ResizeEvent
    \/ ResizeUpdate
    \/ ResizePixmap

(***************************************************************************)
(* example.py: on_h264_data, called by the SspClient's callback thread for *)
(* each frame while the client is started. The calls it makes are the      *)
(* write_frame and push_frame above: the callback hands the call to the    *)
(* submitting thread as one allowed submission and goes on when the call   *)
(* has returned.                                                           *)
(***************************************************************************)
\* on_h264_data(data): the status line is updated, then
\* `if h264_dump and h264_dump.is_running:` decides on the write_frame call.
OnH264Data ==
    /\ opc = "idle"
    /\ client = "started"
    /\ obudget.frames > 0
    /\ obudget' = [obudget EXCEPT !.frames = @ - 1]
    /\ ohist' = [ohist EXCEPT !.delivered = @ + 1]
    /\ IF h264_dump # None /\ dump_is_running
       THEN /\ opc' = "write_frame"
            /\ budget' = [budget EXCEPT !.submits = 1]
       ELSE /\ opc' = "preview"
            /\ UNCHANGED budget
    /\ UNCHANGED <<dump_is_running, dump_stop_event, dump_frame_queue,
                   dump_file_handle, dump_thread, wpc, wlocal, handles, disk,
                   cpc, ppc, pframe, hist>>
    /\ UNCHANGED <<h264_dump, preview_widget, stop_event, client, rpc>>
    /\ UNCHANGED pvars
    /\ UNCHANGED cvars
    /\ UNCHANGED fvars

\* h264_dump.write_frame(data['data']) has returned.
WriteFrameReturned == budget.submits = 0 /\ ppc = "idle"

\* A callback in which the push to the preview is the `else` of the write.
OnH264DataWrittenOnly ==
    /\ opc = "write_frame"
    /\ WriteFrameReturned
    /\ opc' = "idle"
    /\ UNCHANGED <<h264_dump, preview_widget, stop_event, client, rpc,
                   obudget, ohist>>
    /\ UNCHANGED wvars
    /\ UNCHANGED pvars
    /\ UNCHANGED cvars
    /\ UNCHANGED fvars

\* on_h264_data: the write_frame call returns; the preview test is next.
OnH264DataWritten ==
    /\ opc = "write_frame"
    /\ WriteFrameReturned
    /\ opc' = "preview"
    /\ UNCHANGED <<h264_dump, preview_widget, stop_event, client, rpc,
                   obudget, ohist>>
    /\ UNCHANGED wvars
    /\ UNCHANGED pvars
    /\ UNCHANGED cvars
    /\ UNCHANGED fvars

\* on_h264_data: `if preview_widget:` decides on the push_frame call.
OnH264DataPreview ==
    /\ opc = "preview"
    /\ IF preview_widget # None
       THEN /\ opc' = "push_frame"
            /\ pbudget' = [pbudget EXCEPT !.pushes = 1]
       ELSE /\ opc' = "idle"
            /\ UNCHANGED pbudget
    /\ UNCHANGED <<dec_running, dec_stop_event, dec_frame_queue, decode_thread,
                   dpc, dunit, display_running, display_thread, display_queue,
                   current_image, video_label, vpc, vframe, qt_events, gpc,
                   gframe, kpc, npc, nunit, phist>>
    /\ UNCHANGED <<h264_dump, preview_widget, stop_event, client, rpc,
                   obudget, ohist>>
    /\ UNCHANGED wvars
    /\ UNCHANGED cvars
    /\ UNCHANGED fvars

\* preview_widget.push_frame(data['type'], data['data']) has returned.
PushFrameReturned == pbudget.pushes = 0 /\ npc = "idle"

\* on_h264_data: the push_frame call returns, and so does the callback.
OnH264DataPushed ==
    /\ opc = "push_frame"
    /\ PushFrameReturned
    /\ opc' = "idle"
    /\ UNCHANGED <<h264_dump, preview_widget, stop_event, client, rpc,
                   obudget, ohist>>
    /\ UNCHANGED wvars
    /\ UNCHANGED pvars
    /\ UNCHANGED cvars
    /\ UNCHANGED fvars

OnH264DataNext ==
    \/ OnH264Data
    \/ OnH264DataWritten
    \/ OnH264DataPreview
    \/ OnH264DataPushed

(***************************************************************************)
(* example.py: run_client, the thread of one session. Its calls of start() *)
(* and stop() are the ones above: run_client hands a start() to the        *)
(* controlling thread as one allowed start, its stop() is taken when       *)
(* run_client is at that call, and run_client goes on when the call has    *)
(* returned. The SspClient is native code: creating and starting it may    *)
(* raise, it delivers callbacks while started, and its stop() returns when *)
(* no callback is under way.                                               *)
(***************************************************************************)
\* run_client(): the two tests of camera_ip and stream_index return early.
RunClientEntry ==
    /\ rpc = "entry"
    /\ \E valid \in BOOLEAN :
          rpc' = IF valid THEN "start_writer" ELSE "exited"
    /\ UNCHANGED <<h264_dump, preview_widget, stop_event, client, opc, obudget, ohist>>
    /\ UNCHANGED wvars
    /\ UNCHANGED pvars
    /\ UNCHANGED cvars
    /\ UNCHANGED fvars

\* try: if h264_dump is not None: h264_dump.start()
RunClientStartWriter ==
    /\ rpc = "start_writer"
    /\ IF h264_dump # None
       THEN /\ rpc' = "in_writer_start"
            /\ budget' = [budget EXCEPT !.starts = 1]
       ELSE /\ rpc' = "start_preview"
            /\ UNCHANGED budget
    /\ UNCHANGED <<dump_is_running, dump_stop_event, dump_frame_queue,
                   dump_file_handle, dump_thread, wpc, wlocal, handles, disk,
                   cpc, ppc, pframe, hist>>
    /\ UNCHANGED <<h264_dump, preview_widget, stop_event, client, opc, obudget, ohist>>
    /\ UNCHANGED pvars
    /\ UNCHANGED cvars
    /\ UNCHANGED fvars

\* h264_dump.start() has returned.
RunClientWriterStarted ==
    /\ rpc = "in_writer_start"
    /\ budget.starts = 0
    /\ cpc = "idle"
    /\ rpc' = "start_preview"
    /\ UNCHANGED <<h264_dump, preview_widget, stop_event, client, opc, obudget, ohist>>
    /\ UNCHANGED wvars
    /\ UNCHANGED pvars
    /\ UNCHANGED cvars
    /\ UNCHANGED fvars

\* if preview_widget: preview_widget.start()
RunClientStartPreview ==
    /\ rpc = "start_preview"
    /\ IF preview_widget # None
       THEN /\ rpc' = "in_preview_start"
            /\ pbudget' = [pbudget EXCEPT !.starts = 1]
       ELSE /\ rpc' = "create_client"
            /\ UNCHANGED pbudget
    /\ UNCHANGED <<dec_running, dec_stop_event, dec_frame_queue, decode_thread,
                   dpc, dunit, display_running, display_thread, display_queue,
                   current_image, video_label, vpc, vframe, qt_events, gpc,
                   gframe, kpc, npc, nunit, phist>>
    /\ UNCHANGED <<h264_dump, preview_widget, stop_event, client, opc, obudget, ohist>>
    /\ UNCHANGED wvars
    /\ UNCHANGED cvars
    /\ UNCHANGED fvars

\* preview_widget.start() has returned.
RunClientPreviewStarted ==
    /\ rpc = "in_preview_start"
    /\ pbudget.starts = 0
    /\ kpc = "idle"
    /\ rpc' = "create_client"
    /\ UNCHANGED <<h264_dump, preview_widget, stop_event, client, opc, obudget, ohist>>
    /\ UNCHANGED wvars
    /\ UNCHANGED pvars
    /\ UNCHANGED cvars
    /\ UNCHANGED fvars

\* A run_client whose stop() calls are at the end of the try block: an
\* exception skips them.
RunClientCreateClientNoFinally ==
    /\ rpc = "create_client"
    /\ \/ /\ client' = "created"
          /\ rpc' = "client_start"
          /\ UNCHANGED obudget
       \/ /\ obudget.faults > 0
          /\ obudget' = [obudget EXCEPT !.faults = @ - 1]
          /\ rpc' = "exited"
          /\ UNCHANGED client
    /\ UNCHANGED <<h264_dump, preview_widget, stop_event, opc, ohist>>
    /\ UNCHANGED wvars
    /\ UNCHANGED pvars
    /\ UNCHANGED cvars
    /\ UNCHANGED fvars

\* client = libssp.SspClient(...); the callbacks are set. An exception goes
\* to `except Exception` (printed) and then to `finally`.
RunClientCreateClient ==
    /\ rpc = "create_client"
    /\ \/ /\ client' = "created"
          /\ rpc' = "client_start"
          /\ UNCHANGED obudget
       \/ /\ obudget.faults > 0
          /\ obudget' = [obudget EXCEPT !.faults = @ - 1]
          /\ rpc' = "finally_client"
          /\ UNCHANGED client
    /\ UNCHANGED <<h264_dump, preview_widget, stop_event, opc, ohist>>
    /\ UNCHANGED wvars
    /\ UNCHANGED pvars
    /\ UNCHANGED cvars
    /\ UNCHANGED fvars

\* client.start(); an exception leaves the client created and not started.
RunClientClientStart ==
    /\ rpc = "client_start"
    /\ \/ /\ client' = "started"
          /\ rpc' = "wait"
          /\ UNCHANGED obudget
       \/ /\ obudget.faults > 0
          /\ obudget' = [obudget EXCEPT !.faults = @ - 1]
          /\ rpc' = "finally_client"
          /\ UNCHANGED client
    /\ UNCHANGED <<h264_dump, preview_widget, stop_event, opc, ohist>>
    /\ UNCHANGED wvars
    /\ UNCHANGED pvars
    /\ UNCHANGED cvars
    /\ UNCHANGED fvars

\* stop_event.set(): by on_disconnected on the callback thread, or by the
\* main thread (disconnect button, closeEvent, Ctrl+C).
StopEventSet ==
    /\ rpc \notin {"unborn", "exited"}
    /\ ~stop_event
    /\ stop_event' = TRUE
    /\ UNCHANGED <<h264_dump, preview_widget, client, rpc, opc, obudget, ohist>>
    /\ UNCHANGED wvars
    /\ UNCHANGED pvars
    /\ UNCHANGED cvars
    /\ UNCHANGED fvars

\* while not stop_event.is_set(): time.sleep(1)
RunClientWait ==
    /\ rpc = "wait"
    /\ stop_event
    /\ rpc' = "finally_client"
    /\ UNCHANGED <<h264_dump, preview_widget, stop_event, client, opc, obudget, ohist>>
    /\ UNCHANGED wvars
    /\ UNCHANGED pvars
    /\ UNCHANGED cvars
    /\ UNCHANGED fvars

\* finally: if client: client.stop(); client = None
RunClientStopClient ==
    /\ rpc = "finally_client"
    /\ IF client # "none"
       THEN /\ opc = "idle"
            /\ client' = "stopped"
       ELSE UNCHANGED client
    /\ rpc' = "stop_writer"
    /\ UNCHANGED <<h264_dump, preview_widget, stop_event, opc, obudget, ohist>>
    /\ UNCHANGED wvars
    /\ UNCHANGED pvars
    /\ UNCHANGED cvars
    /\ UNCHANGED fvars

\* finally: if h264_dump: h264_dump.stop() ...
RunClientStopWriter ==
    /\ rpc = "stop_writer"
    /\ rpc' = IF h264_dump # None THEN "in_writer_stop" ELSE "stop_preview"
    /\ UNCHANGED <<h264_dump, preview_widget, stop_event, client, opc, obudget, ohist>>
    /\ UNCHANGED wvars
    /\ UNCHANGED pvars
    /\ UNCHANGED cvars
    /\ UNCHANGED fvars

\* The stop() of the writer that run_client calls.
RunClientDumpStop ==
    /\ rpc = "in_writer_stop"
    /\ DumpStopSignal

\* ... h264_dump.stop() has returned; h264_dump = None
RunClientWriterStopped ==
    /\ rpc = "in_writer_stop"
    /\ cpc = "idle"
    /\ ~dump_is_running
    /\ h264_dump' = None
    /\ rpc' = "stop_preview"
    /\ UNCHANGED <<preview_widget, stop_event, client, opc, obudget, ohist>>
    /\ UNCHANGED wvars
    /\ UNCHANGED pvars
    /\ UNCHANGED cvars
    /\ UNCHANGED fvars

\* finally: if preview_widget: preview_widget.stop()
RunClientStopPreview ==
    /\ rpc = "stop_preview"
    /\ rpc' = IF preview_widget # None THEN "in_preview_stop" ELSE "exited"
    /\ UNCHANGED <<h264_dump, preview_widget, stop_event, client, opc, obudget, ohist>>
    /\ UNCHANGED wvars
    /\ UNCHANGED pvars
    /\ UNCHANGED cvars
    /\ UNCHANGED fvars

\* The stop() of the preview that run_client calls.
RunClientPreviewStop ==
    /\ rpc = "in_preview_stop"
    /\ PreviewStopDecoder

\* preview_widget.stop() has returned; run_client prints and returns.
RunClientPreviewStopped ==
    /\ rpc = "in_preview_stop"
    /\ kpc = "idle"
    /\ ~display_running
    /\ rpc' = "exited"
    /\ UNCHANGED <<h264_dump, preview_widget, stop_event, client, opc, obudget, ohist>>
    /\ UNCHANGED wvars
    /\ UNCHANGED pvars
    /\ UNCHANGED cvars
    /\ UNCHANGED fvars

RunClientNext ==
    \/ RunClientEntry
    \/ RunClientStartWriter
    \/ RunClientWriterStarted
    \/ RunClientStartPreview
    \/ RunClientPreviewStarted
    \/ RunClientCreateClient
    \/ RunClientClientStart
    \/ RunClientWait
    \/ RunClientStopClient
    \/ RunClientStopWriter
    \/ RunClientDumpStop
    \/ RunClientWriterStopped
    \/ RunClientStopPreview
    \/ RunClientPreviewStop
    \/ RunClientPreviewStopped

\* The steps of the writer and of the preview that a session can take: the
\* calls run_client and on_h264_data make, and the worker threads.
SessionDumpNext ==
    \/ DumpStartThread
    \/ DumpStartSetRunning
    \/ DumpStopJoined
    \/ DumpStopJoinTimeout
    \/ WriteFrameRunning
    \/ WriteFramePut
    \/ \E w \in Workers : DumpWorker(w)

SessionPreviewNext ==
    \/ PreviewStartDecoder
    \/ DecoderStartClear
    \/ DecoderStartThread
    \/ PreviewStartSetRunning
    \/ PreviewStartThread
    \/ DecoderStopSignal
    \/ DecoderStopJoined
    \/ DecoderStopJoinTimeout
    \/ PreviewStopSetRunning
    \/ PreviewStopJoined
    \/ PreviewStopJoinTimeout
    \/ PreviewStopSetText
    \/ PreviewStopClearImage
    \/ PushFrameRunning
    \/ PushFramePut
    \/ OnFrameDecodedNotRunning
    \/ OnFrameDecodedRunning
    \/ OnFrameDecodedPut
    \/ \E d \in PWorkers : DecodeWorker(d)
    \/ \E v \in PWorkers : DisplayWorker(v)

(***************************************************************************)
(* Specifications.                                                         *)
(***************************************************************************)
\* The stream writer alone.
Init ==
    /\ DumpInit(MaxStarts, MaxSubmit, MaxFaults)
    /\ PreviewInit(0, 0, 0)
    /\ CodecConstructed
    /\ NoSession

Next == DumpNext

Spec == Init /\ [][Next]_vars

\* The preview (decoder and display sink) alone.
InitPreview ==
    /\ DumpInit(0, 0, 0)
    /\ PreviewInit(MaxPreviewStarts, MaxPush, MaxDecodeFaults)
    /\ CodecConstructed
    /\ NoSession

NextPreview == PreviewNext

SpecPreview == InitPreview /\ [][NextPreview]_vars

\* Either component: the writer and the preview share no state, so a run
\* exercises one of them while the other stays as constructed. The preview
\* widget is shown, and may be resized at any moment.
InitEither ==
    \/ /\ DumpInit(EitherStarts, EitherSubmit, 0)
       /\ PreviewInit(0, 0, 0)
       /\ CodecConstructed
       /\ NoSession
    \/ /\ DumpInit(0, 0, 0)
       /\ PreviewInit(EitherStarts, EitherPush, MaxDecodeFaults)
       /\ CodecConstructed
       /\ NoSession

NextEither == DumpNext \/ PreviewNext \/ ResizeNext

SpecEither == InitEither /\ [][NextEither]_vars

\* The preview started once and fed more units than its decoder's queue
\* holds.
InitOverload ==
    /\ DumpInit(0, 0, 0)
    /\ PreviewInit(1, OverloadPush, 0)
    /\ CodecConstructed
    /\ NoSession

NextOverload == PreviewNext

SpecOverload == InitOverload /\ [][NextOverload]_vars

\* The preview from the construction of its decoder on: the codec is
\* created and opened, then the preview is started, fed and stopped.
InitCodec ==
    /\ DumpInit(0, 0, 0)
    /\ PreviewInit(1, 1, 0)
    /\ CodecUnconstructed
    /\ NoSession

NextCodec == InitCodecNext \/ PreviewNext

SpecCodec == InitCodec /\ [][NextCodec]_vars

\* Either component under fair scheduling: a worker thread that can take a
\* step eventually takes it (every write, decode and convert terminates,
\* every get and put returns at its timeout at the latest), and so does a
\* thread inside start(), stop(), a submit function or the slot (a join
\* returns at its timeout at the latest). The threads are free to call
\* start(), stop() and the submit functions or not.
InitCancel ==
    \/ /\ DumpInit(EitherStarts, EitherSubmit, 0)
       /\ PreviewInit(0, 0, 0)
       /\ CodecConstructed
       /\ NoSession
    \/ /\ DumpInit(0, 0, 0)
       /\ PreviewInit(CancelStarts, CancelPush, 0)
       /\ CodecConstructed
       /\ NoSession

NextCancel == DumpNext \/ PreviewNext

\* The steps that continue a call of start() or stop() already entered.
DumpCallStep ==
    \/ DumpStartSetRunning
    \/ DumpStopJoined
    \/ DumpStopJoinTimeout

PreviewCallStep ==
    \/ DecoderStartClear
    \/ DecoderStartThread
    \/ PreviewStartSetRunning
    \/ PreviewStartThread
    \/ DecoderStopSignal
    \/ DecoderStopJoined
    \/ DecoderStopJoinTimeout
    \/ PreviewStopSetRunning
    \/ PreviewStopJoined
    \/ PreviewStopJoinTimeout
    \/ PreviewStopSetText
    \/ PreviewStopClearImage

FairWorkers ==
    /\ \A w \in Workers : WF_vars(DumpWorker(w))
    /\ \A d \in PWorkers : WF_vars(DecodeWorker(d))
    /\ \A v \in PWorkers : WF_vars(DisplayWorker(v))

FairCalls ==
    /\ WF_vars(DumpCallStep)
    /\ WF_vars(WriteFramePut)
    /\ WF_vars(PreviewCallStep)
    /\ WF_vars(PushFramePut)
    /\ WF_vars(OnFrameDecodedPut)

SpecCancel == InitCancel /\ [][NextCancel]_vars /\ FairWorkers /\ FairCalls

(***************************************************************************)
(* Properties of the stream writer (Dumph26x).                             *)
(***************************************************************************)
AliveWorkers == {w \in Workers : Alive(w)}

\* stop() of the current cycle has returned, every worker thread has ended,
\* every write_frame call of the cycle was made between start() returning
\* and stop() being called, the environment injected no I/O fault and no
\* join of a stop() has timed out.
CycleComplete ==
    /\ hist.stopped
    /\ cpc = "idle"
    /\ ppc = "idle"
    /\ ~hist.racy
    /\ ~hist.fault
    /\ ~hist.timed_out
    /\ AliveWorkers = {}

\* C1: after start(), N write_frame calls of one producer, stop(), and the
\* end of the worker, the file holds exactly the N payloads in submission
\* order and the total the worker printed is N.
C1_Completeness ==
    CycleComplete =>
        /\ disk = Concat(hist.sub)
        /\ wlocal[dump_thread].total = Len(hist.sub)

\* The same statement for the first start() of an instance only (it holds).
FirstCycleCompleteness ==
    (CycleComplete /\ hist.cycle = 1) =>
        /\ disk = Concat(hist.sub)
        /\ wlocal[dump_thread].total = Len(hist.sub)

\* C2: start(), frames, stop(), start(), frames, stop() on one instance:
\* the file of the second cycle holds exactly the frames submitted after the
\* second start(), in order.
C2_RestartCycle ==
    (CycleComplete /\ hist.cycle = 2) => disk = Concat(hist.sub)

\* C3: the frames queued when stop() sets the stop signal, with no frame put
\* afterwards, are all written, in queue order, before the worker of that
\* cycle closes the file and ends.
C3_DrainOnStop ==
    (/\ hist.stopped
     /\ ~hist.late
     /\ ~hist.fault
     /\ ~hist.timed_out
     /\ wpc[dump_thread] = "done")
    => IsSuffix(Concat(hist.at_stop), disk)

\* The same statement for the first start() of an instance only (it holds).
FirstCycleDrainOnStop == hist.cycle = 1 => C3_DrainOnStop

\* C4: the queue never holds more than a capacity C fixed at construction;
\* submissions in excess of it are dropped. Stated for every capacity
\* smaller than the number of submissions made.
C4_QueueBound == Len(dump_frame_queue) < MaxSubmit

\* C5: at most one worker thread of the instance is alive.
C5_OneDumpWorker == Cardinality(AliveWorkers) <= 1

\* C8: when the file cannot be opened, start() leaves the component not
\* Running: once start() has returned, is_running is False.
C8_OpenFailureNotRunning ==
    (/\ dump_thread \in hist.open_failed
     /\ cpc = "idle"
     /\ ~hist.stopped)
    => ~dump_is_running

\* C9: a worker thread that has ended has closed the file it opened, and
\* when no worker is alive file_handle is None.
C9_HandleReleased ==
    \A w \in Workers :
        wpc[w] = "done" =>
            /\ handles[w].st # "open"
            /\ (AliveWorkers = {} => dump_file_handle = None)
\* The statement of C9 for the runs in which no join of stop() timed out,
\* so that no two workers overlap (it holds).
HandleReleasedWithoutOverlap == ~hist.timed_out => C9_HandleReleased

(***************************************************************************)
(* Properties of the decoder and of the display sink, and of the three     *)
(* components together.                                                    *)
(***************************************************************************)
AliveDecodeWorkers == {d \in PWorkers : DAlive(d)}
AliveDisplayWorkers == {v \in PWorkers : VAlive(v)}

\* C6: at most one decode worker thread and at most one display worker
\* thread are alive.
C6_OnePreviewWorker ==
    /\ Cardinality(AliveDecodeWorkers) <= 1
    /\ Cardinality(AliveDisplayWorkers) <= 1

\* C7: once stop() has returned and the component reports Stopped (its
\* running flag is False), its worker thread has ended and the writer's
\* file is closed.
C7_StoppedMeansExited ==
    /\ (hist.stopped /\ cpc = "idle" /\ ~dump_is_running)
          => (~Alive(dump_thread) /\ handles[dump_thread].st # "open")
    /\ (phist.stopped /\ kpc = "idle" /\ ~dec_running)
          => ~DAlive(decode_thread)
    /\ (phist.stopped /\ kpc = "idle" /\ ~display_running)
          => ~VAlive(display_thread)

\* A step in which write_frame, push_frame or the slot _on_frame_decoded is
\* entered.
WriteFrameCalled == budget'.submits < budget.submits
PushFrameCalled == pbudget'.pushes < pbudget.pushes
OnFrameDecodedCalled == Len(qt_events') < Len(qt_events)

SubmitNotRunningIsDropped ==
    /\ (WriteFrameCalled /\ ~dump_is_running)
          => (dump_frame_queue' = dump_frame_queue /\ ppc' = "idle")
    /\ (PushFrameCalled /\ ~dec_running)
          => (dec_frame_queue' = dec_frame_queue /\ npc' = "idle")
    /\ (OnFrameDecodedCalled /\ ~display_running)
          => (display_queue' = display_queue /\ gpc' = "idle")

\* C10: a submission made while the component is not running is dropped and
\* leaves the component's queue as it was: a write_frame call that finds
\* is_running False, a push_frame call that finds running False, and a
\* call of the slot _on_frame_decoded that finds display_running False
\* return at once with the queue unchanged.
C10_SubmitNotRunning == [][SubmitNotRunningIsDropped]_vars

\* Reached: a unit was dropped by push_frame and a decoded frame by
\* _on_frame_decoded, each because the component was not running.
C10_Witness == phist.dropped > 0 /\ phist.disp_dropped > 0

\* Reached as well: a frame dropped by write_frame of a writer not running.
C10_WitnessWriter == hist.dropped > 0

\* A step of a start() that found the component Running, or of a stop()
\* that found it Stopped.
RedundantDumpCall == hist'.redundant # hist.redundant
RedundantPreviewCall == phist'.redundant # phist.redundant

RedundantCallIsNoop ==
    /\ RedundantDumpCall =>
          UNCHANGED <<dump_is_running, dump_stop_event, dump_frame_queue,
                      dump_file_handle, dump_thread, wpc, wlocal, handles,
                      disk, cpc>>
    /\ RedundantPreviewCall =>
          UNCHANGED <<dec_running, dec_stop_event, dec_frame_queue,
                      decode_thread, dpc, dunit, display_running,
                      display_thread, display_queue, current_image,
                      video_label, vpc, vframe, kpc>>

\* C11: redundant lifecycle calls are no-ops: a start() that finds the
\* component Running creates no worker thread and changes no flag, event,
\* queue or file state, and a stop() that finds it Stopped signals nothing,
\* joins nothing and changes no state (writer, and preview with its
\* decoder).
C11_RedundantCallsAreNoops == [][RedundantCallIsNoop]_vars

\* Reached: the writer has had a redundant start() and a redundant stop().
C11_Witness == hist.redundant = {"start", "stop"}

\* Reached as well: the same for the preview.
C11_WitnessPreview == phist.redundant = {"start", "stop"}

\* A step in which a put of push_frame gives up on a queue that is full.
PushFindsQueueFull ==
    /\ npc = "put"
    /\ npc' = "idle"
    /\ Len(dec_frame_queue) >= queue_size

PushFullIsDropped ==
    PushFindsQueueFull =>
        /\ dec_frame_queue' = dec_frame_queue
        /\ nunit' = None

\* C12: the decoder's queue never holds more than its capacity queue_size,
\* and a push_frame whose put finds the queue full discards the incoming
\* unit, leaves the queued units and their order as they were, and returns.
C12_DecoderQueueBound ==
    /\ [](Len(dec_frame_queue) <= queue_size)
    /\ [][PushFullIsDropped]_vars

\* Reached: a unit was dropped on a full queue, which still holds
\* queue_size units.
C12_Witness ==
    /\ phist.full_dropped > 0
    /\ Len(dec_frame_queue) = queue_size

\* All OverloadPush units were submitted to the decoder while it was
\* running, stop() was never called, and the last push_frame has returned.
OverloadDone ==
    /\ pbudget.pushes = 0
    /\ npc = "idle"
    /\ phist.pushed = OverloadPush
    /\ phist.dropped = 0
    /\ ~phist.stopped

\* C13: a started decoder of capacity queue_size (2) that is fed
\* OverloadPush (5) units back-to-back drops at least
\* OverloadPush - queue_size (3) of them and never queues more than
\* queue_size (2) at once.
C13_OverloadDrops ==
    /\ Len(dec_frame_queue) <= queue_size
    /\ OverloadDone => phist.full_dropped >= OverloadPush - queue_size

\* A step in which push_frame drops a unit on a full queue.
UnitDroppedOnFull == phist'.full_dropped > phist.full_dropped

\* C13 as amended: the decoder, constructed with capacity queue_size and
\* started once, drops at most OverloadPush - queue_size of the units (its
\* worker takes units while they are submitted), each of them only while
\* queue_size units are queued, and never queues more than queue_size.
C13_OverloadAtMost ==
    /\ [](Len(dec_frame_queue) <= queue_size)
    /\ []((phist.pushed - phist.dropped <= queue_size)
            => phist.full_dropped = 0)
    /\ [](phist.full_dropped <= Max(0, OverloadPush - queue_size))
    /\ [][UnitDroppedOnFull => Len(dec_frame_queue) = queue_size]_vars

\* Reached: the five units were submitted and exactly three were dropped.
C13_Witness ==
    /\ OverloadDone
    /\ phist.full_dropped = OverloadPush - queue_size

\* Reached as well: the five units were submitted and none was dropped.
C13_WitnessNoDrop ==
    /\ OverloadDone
    /\ phist.full_dropped = 0

\* A step in which the put of _on_frame_decoded gives up on a full queue.
SlotFindsQueueFull ==
    /\ gpc = "put"
    /\ gpc' = "idle"
    /\ Len(display_queue) >= DisplayQueueMaxsize

\* The slot inside its put and every live display worker can take a step:
\* neither waits for the other without a timeout.
DisplayNeverBlocked ==
    /\ gpc = "put" => ENABLED OnFrameDecodedPut
    /\ \A v \in PWorkers : VAlive(v) => ENABLED DisplayWorker(v)

\* C14: the display queue never holds more than 3 decoded images and the
\* sink retains one image at most (_current_image); an image pushed while
\* the queue stays full is dropped and the queued images are unchanged,
\* and neither the pushing slot nor the display worker is ever blocked.
C14_DisplayOverload ==
    /\ [](Len(display_queue) <= DisplayQueueMaxsize)
    /\ [](current_image \in {None} \cup 1..OverloadPush)
    /\ [][SlotFindsQueueFull =>
            (display_queue' = display_queue /\ gframe' = None)]_vars
    /\ []DisplayNeverBlocked

\* Reached: an image was dropped on a full display queue, which still
\* holds its 3 images, while the display worker is alive.
C14_Witness ==
    /\ phist.disp_full_dropped > 0
    /\ Len(display_queue) = DisplayQueueMaxsize
    /\ VAlive(display_thread)

\* PreviewH26xWnd.stop() has returned, no start() was called since, and
\* both of its joins saw the worker end.
PreviewStopReturned ==
    /\ phist.stopped
    /\ kpc = "idle"
    /\ ~display_running
    /\ ~phist.dec_timed_out
    /\ ~phist.disp_timed_out

\* C15: after stop() of the display sink has returned, _current_image is
\* None and video_label shows the placeholder text, not a video image,
\* however stop() is interleaved with the display worker and with the
\* resize events of the GUI thread.
C15_StopClearsDisplay ==
    PreviewStopReturned =>
        /\ current_image = None
        /\ video_label = Placeholder

\* Worker threads that are using the writer's file handle, the decoder's
\* codec context, and the presentation surface (video_label with
\* _current_image).
FileHandleUsers ==
    {w \in Workers : wpc[w] \in {"write", "flush", "drain_write", "finally",
                                 "finally_clear"}}
CodecUsers == {d \in PWorkers : dpc[d] = "decode"}
SurfaceWorkers == {v \in PWorkers : vpc[v] \in {"convert", "update", "pixmap"}}

\* The thread that called stop() is writing the presentation surface.
StopCallerOnSurface == kpc \in {"stop_text", "stop_clear"}

\* C16: each queue and each owned resource is used by at most its one
\* worker thread and one submitter thread: no two workers of a component
\* are alive to share its queue, no two use the file handle, the codec or
\* the presentation surface at once, and the thread that calls stop()
\* touches the presentation surface only when no display worker is alive.
C16_ExclusiveOwnership ==
    /\ Cardinality(AliveWorkers) <= 1
    /\ Cardinality(AliveDecodeWorkers) <= 1
    /\ Cardinality(AliveDisplayWorkers) <= 1
    /\ Cardinality(FileHandleUsers) <= 1
    /\ Cardinality(CodecUsers) <= 1
    /\ Cardinality(SurfaceWorkers) <= 1
    /\ StopCallerOnSurface => AliveDisplayWorkers = {}

\* The statement of C16 for the runs in which no join of a stop() timed
\* out (it holds).
OwnershipWithoutJoinTimeout ==
    (~hist.timed_out /\ ~phist.dec_timed_out /\ ~phist.disp_timed_out)
        => C16_ExclusiveOwnership

\* A step in which a decode worker leaves the decoding of a unit.
DecodeStepKeepsWorker ==
    \A d \in PWorkers :
        (dpc[d] = "decode" /\ dpc'[d] # "decode") => dpc'[d] = "loop"

\* C17: a decode failure on one unit does not terminate the decode worker:
\* whatever parse and decode make of a unit, the worker goes back to its
\* loop test, so that between DecodeH26x.start() and the next stop() the
\* worker is alive to decode the units accepted later.
C17_DecodeFailureSurvived ==
    /\ [][DecodeStepKeepsWorker]_vars
    /\ []((decode_thread = phist.cycle /\ phist.cycle > 0 /\ ~phist.stopped)
            => DAlive(decode_thread))

\* Reached: the codec raised on a unit and a unit accepted later has been
\* decoded and emitted.
C17_Witness ==
    /\ phist.failed_unit > 0
    /\ \E i \in 1..Len(qt_events) : qt_events[i] > phist.failed_unit

\* A sequence of units in submission order (a unit is named by its
\* submission number).
IsIncreasing(q) == \A i, j \in 1..Len(q) : i < j => q[i] < q[j]

\* C18: with a single producer the units accepted by push_frame reach the
\* codec in the order they were accepted and their images are emitted on
\* frame_decoded in that order, none twice: the emitted units are in
\* submission order, and every unit emitted was submitted before every
\* unit a worker holds or the queue holds.
C18_DecoderFifo ==
    /\ IsIncreasing(qt_events)
    /\ IsIncreasing(dec_frame_queue)
    /\ \A i \in 1..Len(qt_events) :
          /\ \A d \in PWorkers : dunit[d] # None => qt_events[i] < dunit[d]
          /\ \A j \in 1..Len(dec_frame_queue) :
                qt_events[i] < dec_frame_queue[j]
    /\ \A d \in PWorkers : \A j \in 1..Len(dec_frame_queue) :
          dunit[d] # None => dunit[d] < dec_frame_queue[j]

\* The statement of C18 for the runs in which no join of stop() timed out,
\* so that one decode worker at most is alive (it holds).
DecoderFifoWithoutJoinTimeout ==
    (~phist.dec_timed_out /\ ~phist.disp_timed_out) => C18_DecoderFifo

\* CodecContext.create('h264', 'r') was called and raised.
H264Failed ==
    /\ codec_tried # <<>>
    /\ ipc # "create_h264"
    /\ codec # "h264"

\* Both create calls raised.
BothFormatsFailed ==
    /\ codec_tried = <<"h264", "hevc">>
    /\ codec = "none"

\* No decode worker exists or has existed.
NoDecodeWorkerEver ==
    /\ ~dec_running
    /\ decode_thread = None
    /\ \A d \in PWorkers : dpc[d] = "unborn"

\* C19: if the creation of the H.264 decoder fails, the H.265 decoder is
\* tried exactly once; if that succeeds (and the context opens) the
\* constructed decoder uses H.265, and if both fail the constructor raises
\* and no decode worker is ever launched.
C19_FormatFallback ==
    /\ (H264Failed /\ ipc # "create_hevc")
          => codec_tried = <<"h264", "hevc">>
    /\ Len(codec_tried) <= 2
    /\ (H264Failed /\ Constructed) => codec = "hevc"
    /\ BothFormatsFailed => ipc = "raised"
    /\ ipc = "raised" => NoDecodeWorkerEver
    /\ ~Constructed => NoDecodeWorkerEver

\* Reached: H.264 failed, H.265 succeeded, and the decoder so constructed
\* runs a decode worker.
C19_Witness ==
    /\ codec_tried = <<"h264", "hevc">>
    /\ codec = "hevc"
    /\ Constructed
    /\ DAlive(decode_thread)

\* Reached as well: both formats failed and the constructor raised.
C19_WitnessBothFail == BothFormatsFailed /\ ipc = "raised"

\* C20: once stop() has been called on a running writer, decoder or display
\* sink, each of its worker threads that is alive eventually exits, under
\* fair scheduling of the workers, also while frames are submitted during
\* the stop.
C20_CooperativeCancellation ==
    /\ \A w \in Workers : (hist.stopped /\ Alive(w)) ~> ~Alive(w)
    /\ \A d \in PWorkers : (phist.stopped /\ DAlive(d)) ~> ~DAlive(d)
    /\ \A v \in PWorkers : (phist.stopped /\ VAlive(v)) ~> ~VAlive(v)

\* A join of the preview's stop() has timed out.
PreviewJoinTimedOut == phist.dec_timed_out \/ phist.disp_timed_out

\* The statement of C20 for the runs in which no join of the preview's
\* stop() times out, so that no start() follows while a worker of the
\* previous run is alive (it holds).
CancellationWithoutJoinTimeout ==
    /\ \A w \in Workers : (hist.stopped /\ Alive(w)) ~> ~Alive(w)
    /\ \A d \in PWorkers :
          (phist.stopped /\ DAlive(d)) ~> (~DAlive(d) \/ PreviewJoinTimedOut)
    /\ \A v \in PWorkers :
          (phist.stopped /\ VAlive(v)) ~> (~VAlive(v) \/ PreviewJoinTimedOut)

\* A submit function that is inside its put can finish it, whatever the
\* worker does.
SubmitNeverBlocked ==
    /\ ppc = "put" => ENABLED WriteFramePut
    /\ npc = "put" => ENABLED PushFramePut

\* The step that ends a put returns to the caller.
SubmitReturns ==
    /\ (ppc = "put" /\ ppc' # "put") => ppc' = "idle"
    /\ (npc = "put" /\ npc' # "put") => npc' = "idle"

\* C21: every call of write_frame and of push_frame returns to the
\* network-callback thread, the frame being enqueued or dropped, in every
\* state of the component, also when the worker has exited or does not
\* dequeue.
C21_SubmitAlwaysReturns ==
    /\ []SubmitNeverBlocked
    /\ [][SubmitReturns]_vars

\* Reached: push_frame has returned from a put that found the queue full
\* with no decode worker alive.
C21_Witness ==
    /\ phist.full_dropped > 0
    /\ npc = "idle"
    /\ AliveDecodeWorkers = {}

\* Reached as well: write_frame has returned from a put made after the
\* writer's worker exited.
C21_WitnessWriter ==
    /\ hist.cycle > 0
    /\ ppc = "idle"
    /\ dump_frame_queue # <<>>
    /\ AliveWorkers = {}

\* stop() of the writer has returned and start() was not called since.
DumpStopReturned == hist.stopped /\ cpc = "idle"

\* stop() inside its join can go on, whether the worker has ended or not.
DumpStopNeverBlocked ==
    cpc = "stop_join" => ENABLED (DumpStopJoined \/ DumpStopJoinTimeout)

\* A write_frame called after stop() returned drops its frame.
DroppedAfterStop ==
    (WriteFrameCalled /\ DumpStopReturned) =>
        (dump_frame_queue' = dump_frame_queue /\ ppc' = "idle")

\* C22: stop() of the writer always returns to its caller, whether or not
\* the worker ends within the join, and once it has returned the writer is
\* not running and write_frame drops the frames it is called with.
C22_StopAlwaysReturns ==
    /\ []DumpStopNeverBlocked
    /\ [](DumpStopReturned => ~dump_is_running)
    /\ [][DroppedAfterStop]_vars

\* Reached: stop() has returned while the worker is still alive, and a
\* frame has been dropped.
C22_Witness ==
    /\ DumpStopReturned
    /\ hist.timed_out
    /\ Alive(dump_thread)
    /\ hist.dropped > 0

\* The worker of the first start() has closed the file and ended, after an
\* open that succeeded and writes that all succeeded, and no write_frame
\* call is under way.
FirstFileClosed ==
    /\ hist.cycle = 1
    /\ hist.stopped
    /\ wpc[dump_thread] = "done"
    /\ hist.open_failed = {}
    /\ ~hist.fault
    /\ ppc = "idle"

\* C23: when write_frame races with stop(), every frame that write_frame
\* put in the queue (it printed no drop warning) is written to the file
\* before the file is closed: none is left in the queue of a closed file.
C23_NoAcceptedFrameLost == FirstFileClosed => dump_frame_queue = <<>>

\* The same statement for the frames of calls made before stop() was
\* called (it holds).
AcceptedInWindowWritten ==
    (FirstFileClosed /\ ~hist.late) => dump_frame_queue = <<>>

\* C24: whenever the writer reports is_running True and stop() has not been
\* called, its worker thread is alive, also after the worker failed to
\* open the file or failed in a write.
C24_RunningImpliesLiveConsumer == InWindow => Alive(dump_thread)

\* The same statement for the first start() of an instance, as long as the
\* open and every write succeeded (it holds).
RunningWithoutFailureIsLive ==
    (/\ InWindow
     /\ hist.cycle = 1
     /\ hist.open_failed = {}
     /\ ~hist.fault) => Alive(dump_thread)

\* The worker is in its `finally` clause or has ended.
Ending(w) == wpc[w] \in {"finally", "finally_clear", "done"}

\* A step of worker w in which a write or a flush of a frame fails.
WriteFails(w) ==
    /\ wpc[w] \in {"write", "flush", "drain_write"}
    /\ wpc'[w] # wpc[w]
    /\ budget'.faults < budget.faults

\* The failing step takes the worker to its `finally` clause, and from there
\* it takes nothing from the queue, puts nothing in a file buffer and
\* never goes back to a loop.
WriteFailureEndsWorker ==
    \A w \in Workers :
        /\ WriteFails(w) => wpc'[w] = "finally"
        /\ (Ending(w) /\ wpc'[w] # wpc[w]) =>
              /\ Ending(w)'
              /\ dump_frame_queue' = dump_frame_queue
              /\ \A h \in Workers :
                    handles'[h].buf \in {handles[h].buf, <<>>}

\* C25: an I/O failure while writing a frame ends the worker: after the
\* failing write the worker makes no further write and no retry, and the
\* frames queued at that moment stay in the queue.
C25_WriteFailureTerminates == [][WriteFailureEndsWorker]_vars

\* Reached: the worker of the first start() has ended after a failed write,
\* with a frame still queued and not in the file.
C25_Witness ==
    /\ hist.cycle = 1
    /\ hist.fault
    /\ hist.open_failed = {}
    /\ wpc[dump_thread] = "done"
    /\ dump_frame_queue # <<>>
    /\ ~hist.late
    /\ disk = <<>>

\* A worker in one of the given positions takes a frame from the queue
\* during the first start() of an instance (the only worker there is).
Dequeues(positions) ==
    /\ hist.cycle = 1
    /\ Len(dump_frame_queue') < Len(dump_frame_queue)
    /\ \E w \in Workers : wpc[w] \in positions /\ wpc'[w] # wpc[w]

\* Every byte written so far has been flushed to the file.
AllFlushed == \A h \in Workers : handles[h].buf = <<>>

\* C26: after every write of a frame the file is flushed before the worker
\* takes the next frame from the queue, in the main loop and in the drain
\* loop that follows the stop signal.
C26_FlushPerFrame == [][Dequeues({"get", "drain"}) => AllFlushed]_vars

\* The same statement for the main loop only (it holds).
FlushPerFrameInMainLoop == [][Dequeues({"get"}) => AllFlushed]_vars

\* Decode worker d tests its loop condition and finds the stop: running is
\* False or stop_event is set.
ObservesStop(d) ==
    /\ dpc[d] = "loop"
    /\ dpc'[d] # dpc[d]
    /\ ~(dec_running /\ ~dec_stop_event)

\* The worker that observes the stop ends with the queue as it is, and a
\* worker that has ended takes no step.
NoDrainAfterStop ==
    \A d \in PWorkers :
        /\ ObservesStop(d) =>
              (dpc'[d] = "done" /\ dec_frame_queue' = dec_frame_queue)
        /\ dpc[d] = "done" => dpc'[d] = "done"

\* C27: once the decode worker observes the stop it takes no further unit
\* from the queue: the units queued at that moment are not decoded by it.
C27_DecoderDoesNotDrain == [][NoDrainAfterStop]_vars

\* Reached: after stop() returned the decode worker has ended and a unit
\* is still queued.
C27_Witness ==
    /\ phist.stopped
    /\ kpc = "idle"
    /\ npc = "idle"
    /\ phist.cycle = 1
    /\ dpc[decode_thread] = "done"
    /\ dec_frame_queue # <<>>

\* The unit a decode worker holds and the image a display worker holds were
\* submitted after the start() that is numbered mark: phist.start_mark is
\* the number of units whose push_frame call had returned by then.
HeldAfterMark(w, mark) ==
    /\ dunit[w] # None => dunit[w] > mark
    /\ vframe[w] # None => vframe[w] > mark

\* C28: after stop() followed by start(), the decode worker of the new run
\* takes only units submitted after that start() and its display worker
\* only images of such units; what the previous run left in the queues is
\* not processed in the new run.
C28_NoStaleData ==
    phist.cycle >= 2 => HeldAfterMark(phist.cycle, phist.start_mark)

\* The callback on_h264_data with each of the two consumers absent or
\* present. start() and stop() are called at any time on one of them, while
\* the other one, when present, stays as constructed (not running).
InitFanOut ==
    \/ \E widget \in {None, TheWidget} :
          /\ OrchInit(TheDump, widget, "started", "unborn", FanOutFrames, 0)
          /\ DumpInit(1, 0, 0)
          /\ PreviewInit(0, 0, 0)
          /\ CodecConstructed
    \/ \E dump \in {None, TheDump} :
          /\ OrchInit(dump, TheWidget, "started", "unborn", FanOutFrames, 0)
          /\ DumpInit(0, 0, 0)
          /\ PreviewInit(1, 0, 0)
          /\ CodecConstructed

NextFanOut == DumpNext \/ PreviewNext \/ OnH264DataNext

SpecFanOut == InitFanOut /\ [][NextFanOut]_vars

\* on_h264_data calls write_frame only when a writer exists and it has just
\* reported is_running True.
WriterOnlyWhenRunning ==
    /\ (opc = "idle" /\ opc' = "write_frame") =>
          (h264_dump # None /\ dump_is_running)
    /\ WriteFrameCalled => (h264_dump # None /\ opc = "write_frame")

\* C29: every frame delivered to on_h264_data is submitted to the preview
\* decoder, whatever became of the writer submission (written, dropped,
\* writer absent or not running), and it is submitted to the writer only
\* when a writer exists and reports running.
C29_FanOut ==
    /\ [](opc = "idle" => phist.pushed = ohist.delivered)
    /\ [][WriterOnlyWhenRunning]_vars

\* The same statement with the preview decoder receiving the frame when a
\* preview widget exists: without one (command-line mode) the frame goes to
\* the writer alone.
C29_FanOutWhenPreviewExists ==
    /\ [](opc = "idle" =>
            phist.pushed = IF preview_widget # None THEN ohist.delivered
                           ELSE 0)
    /\ [][WriterOnlyWhenRunning]_vars

\* Reached: a frame that the writer dropped was pushed to the preview.
C29_Witness ==
    /\ opc = "idle"
    /\ hist.dropped > 0
    /\ phist.pushed = ohist.delivered
    /\ ohist.delivered > 0

\* Reached: a frame was pushed to the preview with a writer that exists and
\* is not running.
C29_WitnessNotRunning ==
    /\ opc = "idle"
    /\ h264_dump # None
    /\ hist.cycle = 0
    /\ phist.pushed > 0

\* Reached: a frame went to the writer and the preview dropped it.
C29_WitnessPreviewDrop ==
    /\ opc = "idle"
    /\ Len(hist.sub) > 0
    /\ phist.dropped > 0

\* One session: run_client with a writer or without (recording or not) and
\* with a preview widget or without (main window or command line), the
\* callback thread delivering frames while the client is started.
InitSession ==
    \E dump \in {None, TheDump}, widget \in {None, TheWidget} :
        /\ OrchInit(dump, widget, "none", "entry", SessionFrames,
                    SessionFaults)
        /\ DumpInit(0, 0, 0)
        /\ PreviewInit(0, 0, 0)
        /\ CodecConstructed

NextSession ==
    \/ RunClientNext
    \/ StopEventSet
    \/ OnH264DataNext
    \/ SessionDumpNext
    \/ SessionPreviewNext

SpecSession == InitSession /\ [][NextSession]_vars

\* The client is started with the writer, if any, and the preview, if any,
\* started; a stop() of the writer or of the preview begins with the
\* client stopped, or never created.
SessionOrder ==
    /\ (client # "started" /\ client' = "started") =>
          /\ h264_dump # None => (dump_is_running /\ cpc = "idle")
          /\ preview_widget # None =>
                (display_running /\ dec_running /\ kpc = "idle")
    /\ (~hist.stopped /\ hist'.stopped) => client \in {"none", "stopped"}
    /\ (~phist.stopped /\ phist'.stopped) => client \in {"none", "stopped"}

\* run_client has returned with stop() called on what it started, and each
\* stop() has returned.
SessionStopped ==
    (rpc = "exited") =>
        /\ hist.cycle > 0 => (hist.stopped /\ ~dump_is_running /\ cpc = "idle")
        /\ phist.cycle > 0 =>
              (phist.stopped /\ ~display_running /\ ~dec_running
               /\ kpc = "idle")

C30_WitnessFrame ==
    /\ rpc = "exited"
    /\ client = "stopped"
    /\ ohist.delivered > 0
    /\ disk # <<>>
    /\ phist.pushed > 0


(***************************************************************************)
(* The front ends of example.py: MainWindow (Connect, Disconnect, close)   *)
(* and run_main_cli, the control-plane calls they make before a session,   *)
(* and the run_client threads they start.  Calls into the writer, the      *)
(* preview and the SspClient are taken as whole calls here; their insides  *)
(* are the subject of the specifications above.                            *)
(***************************************************************************)

\* What the camera answers to GET /ctrl/stream_setting?action=query:
\* a JSON body whose status is "idle" or something else, a body without
\* status, or no usable answer (timeout, HTTP error, invalid JSON).
Statuses == {"idle", "streaming", "missing", "failed"}

\* What the camera answers to the set-stream call: a JSON body whose code
\* is 0, 1 or false, a body without code, or no usable answer.
Codes == {"0", "1", "false", "missing", "failed"}

\* Values of code for which Python's result.get('code') == 0 is true
\* (False == 0 in Python).
CodesEqualToZero == {"0", "false"}

\* What the user may type at the stream prompt of run_main_cli.
StreamChoices == {"", "0", "1", "2"}

\* What the user may type at the dump prompt of run_main_cli.
DumpAnswers == {"y", "Y", "n", ""}

\* query_stream_settings: True only for a body with status == 'idle';
\* every exception path returns False.
query_stream_settings(status) == status = "idle"

\* sent_stream_index: True only when result.get('code') == 0; every
\* exception path returns False.
sent_stream_index(code) == code \in CodesEqualToZero

\* stream_index = 1
\* if not stream_choice and stream_choice == "0": stream_index = 0
StreamIndexOf(stream_choice) ==
    IF stream_choice = "" /\ stream_choice = "0" THEN 0 ELSE 1

\* stream_style = libssp.STREAM_MAIN if stream_index == 0
\*                else libssp.STREAM_DEFAULT
StreamStyleOf(index) == IF index = 0 THEN "STREAM_MAIN" ELSE "STREAM_DEFAULT"

\* The process runs until the main thread leaves run_main_gui/run_main_cli;
\* the run_client threads are daemon threads and end with it.
ProcessAlive == mpc # "exited"

\* threading.Thread.is_alive() of a run_client thread
ThreadAlive(t) ==
    /\ ProcessAlive
    /\ session[t].pc \notin {"unborn", "exited"}

\* The calls the front end makes before a session, on the answers given:
\* the query, then (only after a successful query) the set-stream call.
ControlPlane(index, status, code) ==
    [fhist EXCEPT !.status = status,
                  !.code = IF query_stream_settings(status)
                           THEN code ELSE "unsent",
                  !.query_index = index,
                  !.sent_index = IF query_stream_settings(status)
                                 THEN index ELSE -1,
                  !.query_ok = query_stream_settings(status),
                  !.sent_ok = query_stream_settings(status)
                              /\ sent_stream_index(code)]

FrontRest == UNCHANGED <<wvars, pvars, cvars, client, rpc, opc, obudget, ohist>>

\* A _connect_camera that goes on after a failed set-stream call.
ConnectCameraIgnoringSent ==
    /\ mpc = "idle"
    /\ connect_btn = "Connect"
    /\ fhist.connects < MaxSessions
    /\ \E ip_given \in BOOLEAN, checked \in {0, 1}, status \in Statuses,
          code \in Codes, record \in BOOLEAN :
         LET t == fhist.connects + 1
             calls == ControlPlane(checked, status, code)
         IN  IF ~ip_given
             THEN UNCHANGED <<stream_index, fhist, h264_dump, stop_event,
                              client_thread, session, connect_btn>>
             ELSE /\ stream_index' = checked
                  /\ IF calls.query_ok
                     THEN /\ h264_dump' = IF record THEN t ELSE None
                          /\ fhist' = [calls EXCEPT
                                 !.connects = t,
                                 !.created = IF record THEN @ \cup {t}
                                             ELSE @]
                          /\ stop_event' = FALSE
                          /\ client_thread' = t
                          /\ session' = [session EXCEPT ![t].pc = "entry"]
                          /\ connect_btn' = "Disconnect"
                     ELSE /\ fhist' = calls
                          /\ UNCHANGED <<h264_dump, stop_event, client_thread,
                                         session, connect_btn>>
    /\ UNCHANGED <<mpc, preview_widget, writer_running, widget_running>>
    /\ FrontRest

\* MainWindow._connect_camera, reached from toggle_connection while the
\* button reads "Connect": ip, stream index, query, set-stream, writer,
\* stop_event.clear(), thread start, button.
ConnectCamera ==
    /\ mpc = "idle"
    /\ connect_btn = "Connect"
    /\ fhist.connects < MaxSessions
    /\ \E ip_given \in BOOLEAN, checked \in {0, 1}, status \in Statuses,
          code \in Codes, record \in BOOLEAN :
         LET t == fhist.connects + 1
             calls == ControlPlane(checked, status, code)
         IN  IF ~ip_given
             THEN UNCHANGED <<stream_index, fhist, h264_dump, stop_event,
                              client_thread, session, connect_btn>>
             ELSE /\ stream_index' = checked
                  /\ IF calls.query_ok /\ calls.sent_ok
                     THEN /\ h264_dump' = IF record THEN t ELSE None
                          /\ fhist' = [calls EXCEPT
                                 !.connects = t,
                                 !.created = IF record THEN @ \cup {t}
                                             ELSE @]
                          /\ stop_event' = FALSE
                          /\ client_thread' = t
                          /\ session' = [session EXCEPT ![t].pc = "entry"]
                          /\ connect_btn' = "Disconnect"
                     ELSE /\ fhist' = calls
                          /\ UNCHANGED <<h264_dump, stop_event, client_thread,
                                         session, connect_btn>>
    /\ UNCHANGED <<mpc, preview_widget, writer_running, widget_running>>
    /\ FrontRest

\* MainWindow._disconnect_camera, reached from toggle_connection while the
\* button reads "Disconnect": stop_event.set(), then join(timeout=10) if
\* the thread is alive, then the button.
DisconnectCamera ==
    /\ mpc = "idle"
    /\ connect_btn = "Disconnect"
    /\ stop_event' = TRUE
    /\ IF client_thread # None /\ ThreadAlive(client_thread)
       THEN mpc' = "join" /\ UNCHANGED connect_btn
       ELSE connect_btn' = "Connect" /\ UNCHANGED mpc
    /\ UNCHANGED <<stream_index, client_thread, session, writer_running,
                   widget_running, fhist, h264_dump, preview_widget>>
    /\ FrontRest

\* join(timeout=10) returns because the thread ended.
DisconnectJoined ==
    /\ mpc = "join"
    /\ ~ThreadAlive(client_thread)
    /\ mpc' = "idle"
    /\ connect_btn' = "Connect"
    /\ UNCHANGED <<stream_index, client_thread, session, writer_running,
                   widget_running, fhist, h264_dump, preview_widget,
                   stop_event>>
    /\ FrontRest

\* join(timeout=10) returns because the ten seconds passed; the result is
\* not looked at.
DisconnectJoinTimeout ==
    /\ mpc = "join"
    /\ ThreadAlive(client_thread)
    /\ mpc' = "idle"
    /\ connect_btn' = "Connect"
    /\ UNCHANGED <<stream_index, client_thread, session, writer_running,
                   widget_running, fhist, h264_dump, preview_widget,
                   stop_event>>
    /\ FrontRest

\* MainWindow.closeEvent: stop_event.set(), join(timeout=10) if the thread
\* is alive, accept; app.exec() returns and the process ends.
CloseEvent ==
    /\ mpc = "idle"
    /\ stop_event' = TRUE
    /\ mpc' = IF client_thread # None /\ ThreadAlive(client_thread)
              THEN "close_join" ELSE "exited"
    /\ UNCHANGED <<stream_index, client_thread, connect_btn, session,
                   writer_running, widget_running, fhist, h264_dump,
                   preview_widget>>
    /\ FrontRest

\* The join of closeEvent returns, by the end of the thread or by timeout.
CloseJoinReturns ==
    /\ mpc = "close_join"
    /\ mpc' = "exited"
    /\ UNCHANGED <<stream_index, client_thread, connect_btn, session,
                   writer_running, widget_running, fhist, h264_dump,
                   preview_widget, stop_event>>
    /\ FrontRest

\* run_main_cli up to the thread start: ip, stream prompt, query,
\* set-stream (sys.exit(1) when either fails), dump prompt, thread start.
CliStart ==
    /\ mpc = "cli_prompt"
    /\ \E stream_choice \in StreamChoices, status \in Statuses,
          code \in Codes, dump_h264 \in DumpAnswers :
         LET index == StreamIndexOf(stream_choice)
             calls == [ControlPlane(index, status, code)
                          EXCEPT !.choice = stream_choice]
             dump == dump_h264 \in {"y", "Y"}
         IN  /\ stream_index' = index
             /\ IF calls.query_ok /\ calls.sent_ok
                THEN /\ h264_dump' = IF dump THEN 1 ELSE None
                     /\ fhist' = [calls EXCEPT
                            !.connects = 1,
                            !.created = IF dump THEN {1} ELSE {}]
                     /\ client_thread' = 1
                     /\ session' = [session EXCEPT ![1].pc = "entry"]
                     /\ mpc' = "cli_wait"
                ELSE /\ fhist' = calls
                     /\ mpc' = "exited"
                     /\ UNCHANGED <<h264_dump, client_thread, session>>
    /\ UNCHANGED <<connect_btn, preview_widget, stop_event, writer_running,
                   widget_running>>
    /\ FrontRest

\* while client_thread.is_alive(): time.sleep(1) -- the loop ends with the
\* thread and run_main_cli returns.
CliThreadEnded ==
    /\ mpc = "cli_wait"
    /\ ~ThreadAlive(client_thread)
    /\ mpc' = "exited"
    /\ UNCHANGED <<stream_index, client_thread, connect_btn, session,
                   writer_running, widget_running, fhist, h264_dump,
                   preview_widget, stop_event>>
    /\ FrontRest

\* except KeyboardInterrupt: stop_event.set(), join(timeout=10) if the
\* thread is alive.
CliInterrupt ==
    /\ mpc = "cli_wait"
    /\ stop_event' = TRUE
    /\ mpc' = IF ThreadAlive(client_thread) THEN "cli_join" ELSE "exited"
    /\ UNCHANGED <<stream_index, client_thread, connect_btn, session,
                   writer_running, widget_running, fhist, h264_dump,
                   preview_widget>>
    /\ FrontRest

\* The join of the KeyboardInterrupt handler returns, by the end of the
\* thread or by timeout; run_main_cli returns.
CliJoinReturns ==
    /\ mpc = "cli_join"
    /\ mpc' = "exited"
    /\ UNCHANGED <<stream_index, client_thread, connect_btn, session,
                   writer_running, widget_running, fhist, h264_dump,
                   preview_widget, stop_event>>
    /\ FrontRest

\* A step of run_client thread t that moves it to position next.
ThreadGoes(t, next) == session' = [session EXCEPT ![t].pc = next]

ThreadKeeps ==
    UNCHANGED <<stream_index, client_thread, connect_btn, mpc, fhist,
                preview_widget>>

\* if camera_ip is None: return
\* if stream_index != 0 and stream_index != 1: return
ThreadEntry(t) ==
    /\ ProcessAlive
    /\ session[t].pc = "entry"
    /\ ThreadGoes(t, IF stream_index \in {0, 1} THEN "start_writer"
                     ELSE "exited")
    /\ UNCHANGED <<h264_dump, stop_event, writer_running, widget_running>>
    /\ ThreadKeeps
    /\ FrontRest

\* if h264_dump is not None: h264_dump.start()
ThreadStartWriter(t) ==
    /\ ProcessAlive
    /\ session[t].pc = "start_writer"
    /\ writer_running' = IF h264_dump # None
                         THEN [writer_running EXCEPT ![h264_dump] = TRUE]
                         ELSE writer_running
    /\ ThreadGoes(t, "start_preview")
    /\ UNCHANGED <<h264_dump, stop_event, widget_running>>
    /\ ThreadKeeps
    /\ FrontRest

\* if preview_widget: preview_widget.start()
ThreadStartPreview(t) ==
    /\ ProcessAlive
    /\ session[t].pc = "start_preview"
    /\ widget_running' = IF preview_widget # None THEN TRUE
                         ELSE widget_running
    /\ ThreadGoes(t, "create_client")
    /\ UNCHANGED <<h264_dump, stop_event, writer_running>>
    /\ ThreadKeeps
    /\ FrontRest

\* stream_style = ...; client = libssp.SspClient(camera_ip, 0x400000, 9999,
\* stream_style); callbacks set.  The constructor may raise: except, finally.
ThreadCreateClient(t) ==
    /\ ProcessAlive
    /\ session[t].pc = "create_client"
    /\ \/ /\ session' = [session EXCEPT
                 ![t].pc = "client_start",
                 ![t].client = "created",
                 ![t].style = StreamStyleOf(stream_index)]
          /\ UNCHANGED fhist
       \/ /\ fhist.faults < MaxClientFaults
          /\ fhist' = [fhist EXCEPT !.faults = @ + 1]
          /\ ThreadGoes(t, "stop_client")
    /\ UNCHANGED <<h264_dump, stop_event, writer_running, widget_running,
                   stream_index, client_thread, connect_btn, mpc,
                   preview_widget>>
    /\ FrontRest

\* client.start(); it may raise: except, finally.
ThreadClientStart(t) ==
    /\ ProcessAlive
    /\ session[t].pc = "client_start"
    /\ \/ /\ session' = [session EXCEPT ![t].pc = "wait",
                                         ![t].client = "started"]
          /\ UNCHANGED fhist
       \/ /\ fhist.faults < MaxClientFaults
          /\ fhist' = [fhist EXCEPT !.faults = @ + 1]
          /\ ThreadGoes(t, "stop_client")
    /\ UNCHANGED <<h264_dump, stop_event, writer_running, widget_running,
                   stream_index, client_thread, connect_btn, mpc,
                   preview_widget>>
    /\ FrontRest

\* on_disconnected, called by the SspClient of thread t after start() and
\* before stop() returned: stop_event.set()
OnDisconnected(t) ==
    /\ ProcessAlive
    /\ session[t].client = "started"
    /\ ~stop_event
    /\ stop_event' = TRUE
    /\ UNCHANGED <<h264_dump, session, writer_running, widget_running>>
    /\ ThreadKeeps
    /\ FrontRest

\* while not stop_event.is_set(): time.sleep(1) -- the loop ends once the
\* event is seen set; finally follows.
ThreadWait(t) ==
    /\ ProcessAlive
    /\ session[t].pc = "wait"
    /\ stop_event
    /\ ThreadGoes(t, "stop_client")
    /\ UNCHANGED <<h264_dump, stop_event, writer_running, widget_running>>
    /\ ThreadKeeps
    /\ FrontRest

\* finally: if client: client.stop(); client = None
ThreadStopClient(t) ==
    /\ ProcessAlive
    /\ session[t].pc = "stop_client"
    /\ session' = [session EXCEPT
           ![t].pc = "stop_writer",
           ![t].client = IF @ = "none" THEN "none" ELSE "stopped"]
    /\ UNCHANGED <<h264_dump, stop_event, writer_running, widget_running>>
    /\ ThreadKeeps
    /\ FrontRest

\* if h264_dump: h264_dump.stop() -- on whatever the global names now
ThreadStopWriter(t) ==
    /\ ProcessAlive
    /\ session[t].pc = "stop_writer"
    /\ IF h264_dump # None
       THEN /\ writer_running' = [writer_running EXCEPT ![h264_dump] = FALSE]
            /\ ThreadGoes(t, "clear_writer")
       ELSE /\ UNCHANGED writer_running
            /\ ThreadGoes(t, "stop_preview")
    /\ UNCHANGED <<h264_dump, stop_event, widget_running>>
    /\ ThreadKeeps
    /\ FrontRest

\* h264_dump = None
ThreadClearWriter(t) ==
    /\ ProcessAlive
    /\ session[t].pc = "clear_writer"
    /\ h264_dump' = None
    /\ ThreadGoes(t, "stop_preview")
    /\ UNCHANGED <<stop_event, writer_running, widget_running>>
    /\ ThreadKeeps
    /\ FrontRest

\* if preview_widget: preview_widget.stop(); the thread ends.
ThreadStopPreview(t) ==
    /\ ProcessAlive
    /\ session[t].pc = "stop_preview"
    /\ widget_running' = IF preview_widget # None THEN FALSE
                         ELSE widget_running
    /\ ThreadGoes(t, "exited")
    /\ UNCHANGED <<h264_dump, stop_event, writer_running>>
    /\ ThreadKeeps
    /\ FrontRest

\* The steps of run_client thread t.
ThreadStep(t) ==
    \/ ThreadEntry(t)
    \/ ThreadStartWriter(t)
    \/ ThreadStartPreview(t)
    \/ ThreadCreateClient(t)
    \/ ThreadClientStart(t)
    \/ ThreadWait(t)
    \/ ThreadStopClient(t)
    \/ ThreadStopWriter(t)
    \/ ThreadClearWriter(t)
    \/ ThreadStopPreview(t)

\* The window has been built (MainWindow.__init__ made the preview widget,
\* the button reads "Connect"), or run_main_cli is at its first prompt
\* (no widget); nothing of a session exists yet.
InitFront ==
    /\ DumpInit(0, 0, 0)
    /\ PreviewInit(0, 0, 0)
    /\ CodecConstructed
    /\ h264_dump = None
    /\ stop_event = FALSE
    /\ client = "none"
    /\ rpc = "unborn"
    /\ opc = "idle"
    /\ obudget = [frames |-> 0, faults |-> 0]
    /\ ohist = NoOHist
    /\ \/ preview_widget = TheWidget /\ FrontInit("idle", "Connect")
       \/ preview_widget = None /\ FrontInit("cli_prompt", "none")

NextFront ==
    \/ ConnectCamera
    \/ DisconnectCamera
    \/ DisconnectJoined
    \/ DisconnectJoinTimeout
    \/ CloseEvent
    \/ CloseJoinReturns
    \/ CliStart
    \/ CliThreadEnded
    \/ CliInterrupt
    \/ CliJoinReturns
    \/ \E t \in Sessions : ThreadStep(t)
    \/ \E t \in Sessions : OnDisconnected(t)

\* Every live thread keeps running (the threads are scheduled by the
\* operating system), and a join that can return does; what the user and
\* the camera do is not forced.
FairFront ==
    /\ \A t \in Sessions : WF_vars(ThreadStep(t))
    /\ WF_vars(DisconnectJoined)
    /\ WF_vars(DisconnectJoinTimeout)
    /\ WF_vars(CloseJoinReturns)
    /\ WF_vars(CliJoinReturns)
    /\ WF_vars(CliThreadEnded)

SpecFront == InitFront /\ [][NextFront]_vars /\ FairFront


(***************************************************************************)
(* Properties of the front ends.                                           *)
(***************************************************************************)

\* The run_client thread t has left finally, or the process is gone.
TornDown(t) == session[t].pc = "exited" \/ ~ProcessAlive

\* C31: once stop_event is set (by on_disconnected or by the user's
\* Disconnect) while a run_client thread is alive, that thread eventually
\* leaves its wait loop, runs its teardown and terminates.
C31_DisconnectLeadsToTeardown ==
    \A t \in Sessions : (stop_event /\ ThreadAlive(t)) ~> TornDown(t)

\* What does hold: a thread that is alive while stop_event is set ends,
\* unless the signal is withdrawn first (stop_event.clear() of a Connect).
TeardownUnlessSignalWithdrawn ==
    \A t \in Sessions :
        (stop_event /\ ThreadAlive(t)) ~> (TornDown(t) \/ ~stop_event)


\* At most one run_client thread is alive.
OneRunClientAlive == Cardinality({t \in Sessions : ThreadAlive(t)}) <= 1

\* The writer a later Connect made: Connect number n binds h264_dump to
\* writer n, so a writer above t belongs to a session after t.
WriterOfLaterSession(t) == h264_dump # None /\ h264_dump > t

\* The finally block of thread t stops (h264_dump.stop()) or clears
\* (h264_dump = None) only a writer that is not a later session's.
TeardownSparesLaterWriter ==
    \A t \in Sessions :
        (/\ session[t].pc \in {"stop_writer", "clear_writer"}
         /\ session'[t].pc # session[t].pc)
        => ~WriterOfLaterSession(t)

\* C32: across any sequence of Connect and Disconnect at most one
\* run_client thread is alive, and the teardown of an earlier session never
\* stops or clears the writer (global h264_dump) of a later session, also
\* when the join of _disconnect_camera timed out before the next Connect.
C32_SessionsDoNotOverlap ==
    [](OneRunClientAlive) /\ [][TeardownSparesLaterWriter]_vars

\* The second half of C32 alone.
LaterWriterSpared == [][TeardownSparesLaterWriter]_vars


\* A step that starts a run_client thread (threading.Thread.start()).
ThreadStarted ==
    \E t \in Sessions : session[t].pc = "unborn" /\ session'[t].pc # "unborn"

\* A step that constructs a Dumph26x.
WriterCreated == fhist'.created # fhist.created

\* The control-plane calls made last both reported success: the query a
\* status equal to "idle", the set-stream call a code equal to 0.
ControlPlanePassed(h) ==
    /\ h.query_ok
    /\ h.status = "idle"
    /\ h.sent_ok
    /\ h.code \in CodesEqualToZero

\* Nothing of a session runs unless a run_client thread was started.
StreamingOnlyInSession ==
    (\/ \E w \in Sessions : writer_running[w]
     \/ widget_running
     \/ \E t \in Sessions : session[t].client # "none")
    => \E t \in Sessions : session[t].pc # "unborn"

\* C33: a run_client thread (and with it the writer and the preview) is
\* started, and a Dumph26x created, only in a step whose query reported
\* status "idle" and whose set-stream call reported success (code 0); a
\* step in which either call failed starts no thread and creates no writer.
C33_StartOnlyFromIdleStream ==
    /\ [](StreamingOnlyInSession)
    /\ [][(ThreadStarted \/ WriterCreated) => ControlPlanePassed(fhist')]_vars

\* A session streams with writer and preview after both calls succeeded.
C33_Witness ==
    \E t \in Sessions :
        /\ session[t].client = "started"
        /\ writer_running[t]
        /\ widget_running
        /\ ControlPlanePassed(fhist)

\* The set-stream call failed after a successful query, in the window and
\* on the command line: nothing was started.
C33_WitnessRefused ==
    /\ fhist.query_ok
    /\ ~fhist.sent_ok
    /\ fhist.connects = 0
    /\ mpc \in {"idle", "exited"}


\* The stream index the prompt of run_main_cli offers for an answer:
\* "0" is Stream0 (STREAM_MAIN), "1" or nothing is Stream1.
OfferedIndex(stream_choice) == IF stream_choice = "0" THEN 0 ELSE 1

\* The query, the set-stream call (when made) and every SspClient created
\* used the index i.
IndexUsed(i) ==
    /\ stream_index = i
    /\ fhist.query_index = i
    /\ fhist.query_ok => fhist.sent_index = i
    /\ \A t \in Sessions :
           session[t].client # "none" => session[t].style = StreamStyleOf(i)

\* C34: in run_main_cli, entering "0" at the stream prompt selects stream
\* index 0 (STREAM_MAIN), entering "1" or nothing selects index 1, and the
\* query, the set-stream call and the client use the selected index.
C34_CliStreamSelection ==
    fhist.choice \in {"0", "1", ""} => IndexUsed(OfferedIndex(fhist.choice))

\* What does hold: whatever is entered, run_main_cli uses index 1
\* throughout.
CliAlwaysUsesStreamOne == fhist.choice # "none" => IndexUsed(1)

====
